---- MODULE Spec2Model ----
(***************************************************************************)
(* A model of the C64 BASIC interpreter of c64_basic.py (class C64Basic).  *)
(*                                                                         *)
(* Text is modelled as Python models it: a str is a sequence of            *)
(* one-character strings, and every str method the interpreter uses        *)
(* (strip, upper, startswith, find, split, replace, isdigit, ...) is an    *)
(* operator that computes what the method computes.  The interpreter's     *)
(* fields are the variables of the module; the read-eval loop of run()     *)
(* and the while loop of run_program() are its actions.                    *)
(***************************************************************************)
EXTENDS Integers, Sequences, FiniteSets, TLC

\* A local variable: F of the value x_.
With(x_, F(_)) == F(x_)

(***************************************************************************)
(* Python str                                                              *)
(***************************************************************************)

\* A str literal as a sequence of characters.
Chars(s) == [i \in 1..Len(s) |-> SubSeq(s, i, i)]

\* The characters of s at the 1-based positions a..b that s has (a slice
\* clips to the string, as Python's slices do).
Sub(s, a, b) ==
    LET lo == IF a < 1 THEN 1 ELSE a
        hi == IF b > Len(s) THEN Len(s) ELSE b
    IN  IF lo > hi THEN <<>> ELSE SubSeq(s, lo, hi)

Whitespace == {" ", "\t", "\n", "\r"}

Digits == {"0", "1", "2", "3", "4", "5", "6", "7", "8", "9"}

UpperLetters == Chars("ABCDEFGHIJKLMNOPQRSTUVWXYZ")

LowerLetters == Chars("abcdefghijklmnopqrstuvwxyz")

Letters == {UpperLetters[i] : i \in 1..26} \cup {LowerLetters[i] : i \in 1..26}

\* s[a:] and s[a:b] for 0 <= a, 0 <= b (Python's 0-based half-open slices).
SliceFrom(s, a) == Sub(s, a + 1, Len(s))

Slice(s, a, b) == Sub(s, a + 1, IF b > Len(s) THEN Len(s) ELSE b)

\* s[1:-1]
Inner(s) == Sub(s, 2, Len(s) - 1)

RECURSIVE LStrip(_)
LStrip(s) == IF s # <<>> /\ Head(s) \in Whitespace THEN LStrip(Tail(s)) ELSE s

RECURSIVE RStrip(_)
RStrip(s) ==
    IF s # <<>> /\ s[Len(s)] \in Whitespace
    THEN RStrip(Sub(s, 1, Len(s) - 1))
    ELSE s

\* str.strip()
Strip(s) == RStrip(LStrip(s))

UpperChar(c) ==
    IF \E i \in 1..26 : LowerLetters[i] = c
    THEN UpperLetters[CHOOSE i \in 1..26 : LowerLetters[i] = c]
    ELSE c

\* str.upper()
Upper(s) == [i \in 1..Len(s) |-> UpperChar(s[i])]

\* str.startswith(p), str.endswith(p)
StartsWith(s, p) == Len(p) <= Len(s) /\ Sub(s, 1, Len(p)) = p

EndsWith(s, p) == Len(p) <= Len(s) /\ Sub(s, Len(s) - Len(p) + 1, Len(s)) = p

\* str.find(p, start): the 0-based index of the first occurrence at or after
\* start, -1 when there is none.
RECURSIVE FindFrom(_, _, _)
FindFrom(s, p, start) ==
    IF start > Len(s) - Len(p) THEN -1
    ELSE IF Sub(s, start + 1, start + Len(p)) = p THEN start
    ELSE FindFrom(s, p, start + 1)

Find(s, p) == FindFrom(s, p, 0)

\* p in s
Contains(s, p) == Find(s, p) # -1

\* s.split(sep, 1): one part when sep does not occur, else two.
SplitOnce(s, sep) ==
    LET i == Find(s, sep)
    IN  IF i = -1 THEN <<s>> ELSE <<Slice(s, 0, i), SliceFrom(s, i + Len(sep))>>

\* s.split(sep): every part, sep non-empty.
RECURSIVE Split(_, _)
Split(s, sep) ==
    LET i == Find(s, sep)
    IN  IF i = -1 THEN <<s>>
        ELSE <<Slice(s, 0, i)>> \o Split(SliceFrom(s, i + Len(sep)), sep)

\* s.replace(old, new): every non-overlapping occurrence, left to right; an
\* empty old matches before every character and at the end.
RECURSIVE Replace(_, _, _)
Replace(s, old, new) ==
    IF old = <<>>
    THEN IF s = <<>> THEN new ELSE new \o <<Head(s)>> \o Replace(Tail(s), old, new)
    ELSE LET i == Find(s, old)
         IN  IF i = -1 THEN s
             ELSE Slice(s, 0, i) \o new \o Replace(SliceFrom(s, i + Len(old)), old, new)

\* str.isdigit(), str.isalpha(), c.isalnum()
IsDigit(s) == s # <<>> /\ \A i \in 1..Len(s) : s[i] \in Digits

IsAlpha(s) == s # <<>> /\ \A i \in 1..Len(s) : s[i] \in Letters

IsAlnumChar(c) == c \in Letters \cup Digits

\* \w of the re module
IsWordChar(c) == c \in Letters \cup Digits \cup {"_"}

DigitValue(c) == CHOOSE d \in 0..9 : Chars("0123456789")[d + 1] = c

\* int(s) for a str of digits
RECURSIVE ParseInt(_)
ParseInt(s) ==
    IF s = <<>> THEN 0
    ELSE 10 * ParseInt(Sub(s, 1, Len(s) - 1)) + DigitValue(s[Len(s)])

\* str(n) for an int
RECURSIVE NatToStr(_)
NatToStr(n) ==
    IF n < 10 THEN <<Chars("0123456789")[n + 1]>>
    ELSE NatToStr(n \div 10) \o <<Chars("0123456789")[(n % 10) + 1]>>

IntToStr(n) == IF n < 0 THEN <<"-">> \o NatToStr(-n) ELSE NatToStr(n)

(***************************************************************************)
(* Python values: the interpreter stores int, float and str, and eval()    *)
(* also yields bool.  A number is the fraction n/d in lowest terms with    *)
(* d >= 1 (d = 1 for int and bool).                                        *)
(***************************************************************************)

IntV(n) == [k |-> "int", n |-> n, d |-> 1, s |-> <<>>]

BoolV(b) == [k |-> "bool", n |-> IF b THEN 1 ELSE 0, d |-> 1, s |-> <<>>]

StrV(s) == [k |-> "str", n |-> 0, d |-> 1, s |-> s]

Abs(n) == IF n < 0 THEN -n ELSE n

RECURSIVE Gcd(_, _)
Gcd(a, b) == IF b = 0 THEN a ELSE Gcd(b, a % b)

\* The float n/d, d # 0.
FloatV(n, d) ==
    LET g == Gcd(Abs(n), Abs(d))
        sg == IF d < 0 THEN -1 ELSE 1
    IN  [k |-> "float", n |-> sg * (n \div g), d |-> sg * (d \div g), s |-> <<>>]

\* isinstance(v, str), and the numbers (bool is an int in Python)
IsStr(v) == v.k = "str"

IsNum(v) == v.k \in {"int", "float", "bool"}

\* int(x) of a number: truncation toward zero.
Trunc(v) == IF v.n >= 0 THEN v.n \div v.d ELSE -((-v.n) \div v.d)

\* The digits of the fraction r/d (0 <= r < d) when it terminates within
\* `fuel` places; floats whose repr does not terminate that soon are not
\* built by the model.
RECURSIVE FracDigits(_, _, _)
FracDigits(r, d, fuel) ==
    IF r = 0 \/ fuel = 0 THEN <<>>
    ELSE <<Chars("0123456789")[((10 * r) \div d) + 1]>> \o FracDigits((10 * r) % d, d, fuel - 1)

\* str(v)
PyStr(v) ==
    CASE v.k = "int" -> IntToStr(v.n)
      [] v.k = "bool" -> IF v.n = 1 THEN Chars("True") ELSE Chars("False")
      [] v.k = "float" ->
            LET a == Abs(v.n)
                whole == NatToStr(a \div v.d)
                frac == FracDigits(a % v.d, v.d, 16)
            IN  (IF v.n < 0 THEN <<"-">> ELSE <<>>) \o whole \o <<".">>
                    \o (IF frac = <<>> THEN <<"0">> ELSE frac)
      [] OTHER -> v.s

\* None, for program_counter and the return addresses: no line number is
\* negative (parse_line takes a line number from isdigit() text).
None == -1

(***************************************************************************)
(* Python's eval() on the texts the interpreter hands to it: numbers,      *)
(* double-quoted strings, parentheses, unary + and -, the operators        *)
(* * / + - and the comparisons == != < > <= >= (chained as Python chains   *)
(* them).  Every other text over the characters of the model's BASIC       *)
(* lines raises in Python (a SyntaxError, or a NameError for an            *)
(* upper-case word, which names nothing in scope); the model's texts hold  *)
(* no other Python operator (power, floor division, modulo), no digit      *)
(* directly followed by a letter or an underscore, no letter directly      *)
(* followed by a quote, no comma and no empty pair of parentheses.         *)
(* A result is [ok, v]: ok is FALSE when Python raises, v is the value.    *)
(***************************************************************************)

PyFail == [ok |-> FALSE, v |-> IntV(0)]

PyOk(v) == [ok |-> TRUE, v |-> v]

RECURSIVE SkipWs(_, _)
SkipWs(s, p) == IF p <= Len(s) /\ s[p] \in {" ", "\t"} THEN SkipWs(s, p + 1) ELSE p

RECURSIVE SkipDigits(_, _)
SkipDigits(s, p) == IF p <= Len(s) /\ s[p] \in Digits THEN SkipDigits(s, p + 1) ELSE p

RECURSIVE Pow10(_)
Pow10(e) == IF e = 0 THEN 1 ELSE 10 * Pow10(e - 1)

\* The printable ASCII characters in code order, for comparing str: 32 to 95,
\* and 97 to 126.
AsciiLow == Chars(" !") \o <<"\"">> \o Chars("#$%&'()*+,-./0123456789:;<=>?@ABCDEFGHIJKLMNOPQRSTUVWXYZ[")
            \o <<"\\">> \o Chars("]^_")

AsciiHigh == Chars("abcdefghijklmnopqrstuvwxyz{|}~")

\* ord(c)
Ord(c) ==
    IF \E i \in 1..Len(AsciiLow) : AsciiLow[i] = c
    THEN 31 + (CHOOSE i \in 1..Len(AsciiLow) : AsciiLow[i] = c)
    ELSE IF \E i \in 1..Len(AsciiHigh) : AsciiHigh[i] = c
    THEN 96 + (CHOOSE i \in 1..Len(AsciiHigh) : AsciiHigh[i] = c)
    ELSE 0

\* a < b for str
RECURSIVE StrLess(_, _)
StrLess(a, b) ==
    IF b = <<>> THEN FALSE
    ELSE IF a = <<>> THEN TRUE
    ELSE IF Head(a) = Head(b) THEN StrLess(Tail(a), Tail(b))
    ELSE Ord(Head(a)) < Ord(Head(b))

NumKind(a, b) == IF a.k = "float" \/ b.k = "float" THEN "float" ELSE "int"

NumResult(kind, n, d) == IF kind = "float" THEN FloatV(n, d) ELSE IntV(n)

RECURSIVE Repeat(_, _)
Repeat(s, n) == IF n <= 0 THEN <<>> ELSE s \o Repeat(s, n - 1)

\* a op b for op in + - * /; ok is FALSE for a TypeError or ZeroDivisionError.
PyBinary(op, a, b) ==
    CASE op = "+" ->
            IF IsNum(a) /\ IsNum(b)
            THEN PyOk(NumResult(NumKind(a, b), a.n * b.d + b.n * a.d, a.d * b.d))
            ELSE IF IsStr(a) /\ IsStr(b) THEN PyOk(StrV(a.s \o b.s))
            ELSE PyFail
      [] op = "-" ->
            IF IsNum(a) /\ IsNum(b)
            THEN PyOk(NumResult(NumKind(a, b), a.n * b.d - b.n * a.d, a.d * b.d))
            ELSE PyFail
      [] op = "*" ->
            IF IsNum(a) /\ IsNum(b)
            THEN PyOk(NumResult(NumKind(a, b), a.n * b.n, a.d * b.d))
            ELSE IF IsStr(a) /\ b.k \in {"int", "bool"} THEN PyOk(StrV(Repeat(a.s, b.n)))
            ELSE IF IsStr(b) /\ a.k \in {"int", "bool"} THEN PyOk(StrV(Repeat(b.s, a.n)))
            ELSE PyFail
      [] OTHER ->
            IF IsNum(a) /\ IsNum(b) /\ b.n # 0
            THEN PyOk(FloatV(a.n * b.d, a.d * b.n))
            ELSE PyFail

\* a == b
PyEq(a, b) ==
    IF IsNum(a) /\ IsNum(b) THEN a.n * b.d = b.n * a.d
    ELSE IsStr(a) /\ IsStr(b) /\ a.s = b.s

\* a op b for a comparison, as a bool; ok is FALSE for a TypeError (ordering
\* a str against a number).
PyCompare(op, a, b) ==
    CASE op = "==" -> PyOk(BoolV(PyEq(a, b)))
      [] op = "!=" -> PyOk(BoolV(~PyEq(a, b)))
      [] OTHER ->
            IF IsNum(a) /\ IsNum(b)
            THEN PyOk(BoolV(CASE op = "<" -> a.n * b.d < b.n * a.d
                              [] op = ">" -> a.n * b.d > b.n * a.d
                              [] op = "<=" -> a.n * b.d <= b.n * a.d
                              [] OTHER -> a.n * b.d >= b.n * a.d))
            ELSE IF IsStr(a) /\ IsStr(b)
            THEN PyOk(BoolV(CASE op = "<" -> StrLess(a.s, b.s)
                              [] op = ">" -> StrLess(b.s, a.s)
                              [] op = "<=" -> ~StrLess(b.s, a.s)
                              [] OTHER -> ~StrLess(a.s, b.s)))
            ELSE PyFail

\* The comparison operator at position p ("" when there is none).
CompareOpAt(s, p) ==
    IF Sub(s, p, p + 1) \in {Chars("=="), Chars("!="), Chars("<="), Chars(">=")}
    THEN s[p] \o s[p + 1]
    ELSE IF p <= Len(s) /\ s[p] \in {"<", ">"} THEN s[p]
    ELSE ""

\* Tokens: a value (lit: a string literal as written), an operator, a
\* parenthesis.  A token read is [ok, tok, pos], pos the position after it.
ValTok(v, lit) == [t |-> "val", v |-> v, op |-> "", lit |-> lit]

OpTok(op) == [t |-> "op", v |-> IntV(0), op |-> op, lit |-> FALSE]

ParenTok(t) == [t |-> t, v |-> IntV(0), op |-> "", lit |-> FALSE]

NoTok == [ok |-> FALSE, tok |-> OpTok(""), pos |-> 0]

Tok(tok, pos) == [ok |-> TRUE, tok |-> tok, pos |-> pos]

TokFail == [ok |-> FALSE, toks |-> <<>>]

\* NUMBER: digits [. digits] or . digits, from p, with the digits before the
\* point ending before q and the number before r; a decimal int does not
\* start with 0 unless it is all zeros.
PyNumber(s, p) ==
    With(SkipDigits(s, p), LAMBDA q :
    With(IF q <= Len(s) /\ s[q] = "." THEN SkipDigits(s, q + 1) ELSE q, LAMBDA r :
    With(Sub(s, p, q - 1), LAMBDA whole :
    With(Sub(s, q + 1, r - 1), LAMBDA frac :
        IF r <= Len(s) /\ (IsWordChar(s[r]) \/ s[r] = ".") THEN NoTok
        ELSE IF whole = <<>> /\ frac = <<>> THEN NoTok
        ELSE IF r > q
        THEN Tok(ValTok(FloatV(ParseInt(whole) * Pow10(Len(frac)) + ParseInt(frac), Pow10(Len(frac))), FALSE), r)
        ELSE IF Len(whole) > 1 /\ whole[1] = "0" /\ \E i \in 1..Len(whole) : whole[i] # "0"
        THEN NoTok
        ELSE Tok(ValTok(IntV(ParseInt(whole)), FALSE), r)))))

\* The token at position p <= Len(s), which is not a blank.
PyToken(s, p) ==
    With(FindFrom(s, <<"\"">>, p) + 1, LAMBDA close :
    With(CompareOpAt(s, p), LAMBDA cmp :
        IF s[p] \in Digits \cup {"."} THEN PyNumber(s, p)
        ELSE IF s[p] = "\""
        THEN IF close = 0 THEN NoTok ELSE Tok(ValTok(StrV(Sub(s, p + 1, close - 1)), TRUE), close + 1)
        ELSE IF s[p] = "(" THEN Tok(ParenTok("lp"), p + 1)
        ELSE IF s[p] = ")" THEN Tok(ParenTok("rp"), p + 1)
        ELSE IF cmp # "" THEN Tok(OpTok(cmp), p + Len(cmp))
        ELSE IF s[p] \in {"+", "-", "*", "/"} THEN Tok(OpTok(s[p]), p + 1)
        ELSE NoTok))

\* The tokens of s from position p on (p not at a blank) after toks; adjacent
\* string literals are one string.
RECURSIVE PyTokens(_, _, _)
PyTokens(s, p, toks) ==
    IF p > Len(s) THEN [ok |-> TRUE, toks |-> toks]
    ELSE With(PyToken(s, p), LAMBDA tk :
            IF ~tk.ok THEN TokFail
            ELSE PyTokens(s, SkipWs(s, tk.pos),
                          IF tk.tok.lit /\ toks # <<>> /\ toks[Len(toks)].lit
                          THEN [toks EXCEPT ![Len(toks)] = ValTok(StrV(@.v.s \o tk.tok.v.s), TRUE)]
                          ELSE Append(toks, tk.tok)))

\* Unary + and -: an operator at the start or after another operator, applied
\* to the value after it; from the right, so that - - 1 is 1.
RECURSIVE PyUnaryPass(_, _)
PyUnaryPass(toks, i) ==
    IF i < 1 THEN [ok |-> TRUE, toks |-> toks]
    ELSE IF toks[i].t = "op" /\ toks[i].op \in {"+", "-"} /\ (i = 1 \/ toks[i - 1].t = "op")
    THEN IF i < Len(toks) /\ toks[i + 1].t = "val" /\ IsNum(toks[i + 1].v)
         THEN PyUnaryPass(Sub(toks, 1, i - 1)
                            \o <<ValTok(NumResult(NumKind(toks[i + 1].v, toks[i + 1].v),
                                                  IF toks[i].op = "-" THEN -toks[i + 1].v.n
                                                  ELSE toks[i + 1].v.n,
                                                  toks[i + 1].v.d), FALSE)>>
                            \o Sub(toks, i + 2, Len(toks)), i - 1)
         ELSE TokFail
    ELSE PyUnaryPass(toks, i - 1)

\* The binary operators of one precedence level from position i on, from the
\* left, each replaced with its operands by its value; r is the result of
\* the pass before.
RECURSIVE PyBinaryPass(_, _, _)
PyBinaryPass(r, ops, i) ==
    IF ~r.ok \/ i > Len(r.toks) THEN r
    ELSE IF r.toks[i].t = "op" /\ r.toks[i].op \in ops
    THEN IF i > 1 /\ i < Len(r.toks) /\ r.toks[i - 1].t = "val" /\ r.toks[i + 1].t = "val"
         THEN With(PyBinary(r.toks[i].op, r.toks[i - 1].v, r.toks[i + 1].v), LAMBDA b :
                IF ~b.ok THEN TokFail
                ELSE PyBinaryPass([ok |-> TRUE,
                                   toks |-> Sub(r.toks, 1, i - 2) \o <<ValTok(b.v, FALSE)>>
                                                \o Sub(r.toks, i + 2, Len(r.toks))],
                                  ops, i))
         ELSE TokFail
    ELSE PyBinaryPass(r, ops, i + 1)

\* a op1 b op2 c is (a op1 b) and (b op2 c): the comparisons from position i
\* on, c the conjunction up to there.  Once a comparison is false Python
\* evaluates no further operand; the rest is still parsed, and no text of
\* the model has an operand there that parses and raises when evaluated.
RECURSIVE PyChain(_, _, _)
PyChain(toks, i, c) ==
    IF ~c.ok THEN PyFail
    ELSE IF i > Len(toks) THEN c
    ELSE IF i = Len(toks) \/ toks[i].t # "op" \/ toks[i + 1].t # "val" THEN PyFail
    ELSE PyChain(toks, i + 2,
                 IF c.v.n = 1 THEN PyCompare(toks[i].op, toks[i - 1].v, toks[i + 1].v) ELSE c)

\* An expression without parentheses, its operators taken from the left
\* whatever their precedence
PyFlatLeftToRight(toks) ==
    With(PyBinaryPass(PyUnaryPass(toks, Len(toks)), {"*", "/", "+", "-"}, 1), LAMBDA a :
        IF ~a.ok \/ a.toks = <<>> THEN PyFail
        ELSE IF a.toks[1].t # "val" THEN PyFail
        ELSE IF Len(a.toks) = 1 THEN PyOk(a.toks[1].v)
        ELSE PyChain(a.toks, 2, PyOk(BoolV(TRUE))))

\* An expression without parentheses.
PyFlat(toks) ==
    With(PyBinaryPass(PyBinaryPass(PyUnaryPass(toks, Len(toks)), {"*", "/"}, 1), {"+", "-"}, 1), LAMBDA a :
        IF ~a.ok \/ a.toks = <<>> THEN PyFail
        ELSE IF a.toks[1].t # "val" THEN PyFail
        ELSE IF Len(a.toks) = 1 THEN PyOk(a.toks[1].v)
        ELSE PyChain(a.toks, 2, PyOk(BoolV(TRUE))))

\* The innermost parenthesis first: the last ( at i and the first ) after it
\* at j, replaced with what is between them by its value; i is 0 and j past
\* the end when there is no parenthesis.
RECURSIVE PyReduce(_)
PyReduce(toks) ==
    With({i \in 1..Len(toks) : toks[i].t = "lp"}, LAMBDA opens :
    With(IF opens = {} THEN 0 ELSE CHOOSE j \in opens : \A k \in opens : k <= j, LAMBDA i :
    With({j \in 1..Len(toks) : toks[j].t = "rp" /\ j > i}, LAMBDA closes :
    With(IF closes = {} THEN Len(toks) + 1 ELSE CHOOSE k \in closes : \A l \in closes : k <= l, LAMBDA j :
        IF (opens = {}) # (closes = {}) THEN PyFail
        ELSE With(PyFlat(Sub(toks, i + 1, j - 1)), LAMBDA inner :
                IF ~inner.ok THEN PyFail
                ELSE IF i = 0 THEN inner
                ELSE PyReduce(Sub(toks, 1, i - 1) \o <<ValTok(inner.v, FALSE)>>
                                \o Sub(toks, j + 1, Len(toks))))))))

\* eval(text)
PyEval(text) ==
    With(PyTokens(text, SkipWs(text, 1), <<>>), LAMBDA t : IF t.ok THEN PyReduce(t.toks) ELSE PyFail)

(***************************************************************************)
(* Python dict: self.variables is a sequence of [name, val] in insertion   *)
(* order, the order in which .items() yields them.                         *)
(***************************************************************************)

DictHas(d, name) == \E i \in 1..Len(d) : d[i].name = name

DictGet(d, name) == d[CHOOSE i \in 1..Len(d) : d[i].name = name].val

\* d[name] = val: a present key keeps its place.
DictSet(d, name, val) ==
    IF DictHas(d, name)
    THEN [i \in 1..Len(d) |-> IF d[i].name = name THEN [name |-> name, val |-> val] ELSE d[i]]
    ELSE Append(d, [name |-> name, val |-> val])

(***************************************************************************)
(* evaluate_expression                                                     *)
(***************************************************************************)

\* A result of evaluate_expression and of the built-ins: exc is TRUE when
\* the call raises.
Ret(v) == [exc |-> FALSE, v |-> v]

Raise == [exc |-> TRUE, v |-> IntV(0)]

\* A float the model does not compute (a transcendental function's).
OpaqueV == [k |-> "opaque", n |-> 0, d |-> 1, s |-> <<>>]

\* self.functions
FunctionNames ==
    {Chars("ABS"), Chars("SQR"), Chars("SIN"), Chars("COS"), Chars("TAN"), Chars("LOG"),
     Chars("EXP"), Chars("INT"), Chars("RND"), Chars("LEN"), Chars("CHR$"), Chars("ASC"),
     Chars("STR$"), Chars("VAL")}

\* int(t) and float(t) for a str t without blanks around it, written
\* [+-]digits[.digits]: the part after the sign is u, its leading digits end
\* before q.
NumberOfText(t, asFloat) ==
    With(IF t # <<>> /\ t[1] \in {"-", "+"} THEN Tail(t) ELSE t, LAMBDA u :
    With(SkipDigits(u, 1), LAMBDA q :
    With(Sub(u, 1, q - 1), LAMBDA whole :
    With(Sub(u, q + 1, Len(u)), LAMBDA frac :
    With(IF t # <<>> /\ t[1] = "-" THEN -1 ELSE 1, LAMBDA sign :
        IF q > Len(u)
        THEN IF whole = <<>> THEN Raise
             ELSE Ret(IF asFloat THEN FloatV(sign * ParseInt(whole), 1) ELSE IntV(sign * ParseInt(whole)))
        ELSE IF asFloat /\ u[q] = "." /\ (frac = <<>> \/ IsDigit(frac)) /\ (whole # <<>> \/ frac # <<>>)
        THEN Ret(FloatV(sign * (ParseInt(whole) * Pow10(Len(frac)) + ParseInt(frac)), Pow10(Len(frac))))
        ELSE Raise)))))

\* int(v)
PyInt(v) ==
    IF v.k = "str" THEN NumberOfText(Strip(v.s), FALSE)
    ELSE IF IsNum(v) THEN Ret(IntV(Trunc(v)))
    ELSE Raise

\* float(v)
PyFloat(v) ==
    IF v.k = "str" THEN NumberOfText(Strip(v.s), TRUE)
    ELSE IF IsNum(v) THEN Ret(FloatV(v.n, v.d))
    ELSE Raise

\* math.sqrt where the root is an integer
IntSqrt(n) == CHOOSE r \in 0..n : r * r = n

\* chr(n) for the printable ASCII characters
Chr(n) == IF n <= 95 THEN AsciiLow[n - 31] ELSE AsciiHigh[n - 96]

\* self.functions[func_name] applied to the evaluated arguments as the call
\* site applies it (lines 334..343); rnd is what random.random() returns.
\* No text of the model gives a function more than one argument.
CallFunction(func_name, evaluated_args, rnd) ==
    LET n == Len(evaluated_args.v)
        a == evaluated_args.v[1]
    IN  IF evaluated_args.exc THEN Raise
        ELSE CASE func_name = Chars("RND") -> Ret(rnd)
               [] func_name = Chars("CHR$") ->
                     IF n >= 1 /\ a.k \in {"int", "bool"} /\ a.n \in (32..95) \cup (97..126)
                     THEN Ret(StrV(<<Chr(a.n)>>))
                     ELSE Raise
               [] func_name = Chars("STR$") ->
                     IF n >= 1 THEN Ret(StrV(PyStr(a))) ELSE Raise
               [] func_name = Chars("ASC") ->
                     IF n >= 1 /\ IsStr(a) /\ Len(a.s) = 1 THEN Ret(IntV(Ord(a.s[1]))) ELSE Raise
               [] func_name = Chars("LEN") ->
                     IF n >= 1 THEN Ret(IntV(Len(PyStr(a)))) ELSE Raise
               [] func_name = Chars("ABS") ->
                     IF n = 1 /\ IsNum(a)
                     THEN Ret(IF a.k = "float" THEN FloatV(Abs(a.n), a.d) ELSE IntV(Abs(a.n)))
                     ELSE Raise
               [] func_name = Chars("INT") ->
                     IF n = 0 THEN Ret(IntV(0)) ELSE IF n = 1 THEN PyInt(a) ELSE Raise
               [] func_name = Chars("VAL") ->
                     IF n = 0 THEN Ret(FloatV(0, 1)) ELSE IF n = 1 THEN PyFloat(a) ELSE Raise
               [] func_name = Chars("SQR") ->
                     IF n = 1 /\ IsNum(a) /\ a.n >= 0
                     THEN IF a.d = 1 /\ \E r \in 0..a.n : r * r = a.n
                          THEN Ret(FloatV(IntSqrt(a.n), 1))
                          ELSE Ret(OpaqueV)
                     ELSE Raise
               [] func_name = Chars("LOG") ->
                     IF n = 1 /\ IsNum(a) /\ a.n > 0 THEN Ret(OpaqueV) ELSE Raise
               [] OTHER ->
                     IF n = 1 /\ IsNum(a) THEN Ret(OpaqueV) ELSE Raise

\* re.match(r'(\w+)\s*\((.*)\)', expr): [ok, name, args]
RECURSIVE SkipWord(_, _)
SkipWord(s, p) == IF p <= Len(s) /\ IsWordChar(s[p]) THEN SkipWord(s, p + 1) ELSE p

RECURSIVE SkipSpace(_, _)
SkipSpace(s, p) == IF p <= Len(s) /\ s[p] \in Whitespace THEN SkipSpace(s, p + 1) ELSE p

\* The position of the last ")" of s after position p, 0 when there is none.
RECURSIVE LastClose(_, _, _)
LastClose(s, p, i) == IF i <= p THEN 0 ELSE IF s[i] = ")" THEN i ELSE LastClose(s, p, i - 1)

FuncMatch(expr) ==
    With(SkipWord(expr, 1), LAMBDA w :
    With(SkipSpace(expr, w), LAMBDA open :
    With(LastClose(expr, open, Len(expr)), LAMBDA close :
        IF w > 1 /\ open <= Len(expr) /\ expr[open] = "(" /\ close # 0
        THEN [ok |-> TRUE, name |-> Sub(expr, 1, w - 1), args |-> Sub(expr, open + 1, close - 1)]
        ELSE [ok |-> FALSE, name |-> <<>>, args |-> <<>>])))

\* The argument texts of a call (lines 309..325): split at the commas outside
\* parentheses, each stripped.
RECURSIVE SplitArgs(_, _, _, _, _)
SplitArgs(args_str, i, paren_count, current_arg, args) ==
    IF i > Len(args_str)
    THEN IF current_arg # <<>> THEN Append(args, Strip(current_arg)) ELSE args
    ELSE IF args_str[i] = "," /\ paren_count = 0
    THEN SplitArgs(args_str, i + 1, paren_count, <<>>, Append(args, Strip(current_arg)))
    ELSE SplitArgs(args_str, i + 1,
                   IF args_str[i] = "(" THEN paren_count + 1
                   ELSE IF args_str[i] = ")" THEN paren_count - 1
                   ELSE paren_count,
                   Append(current_arg, args_str[i]), args)

\* The text with every variable's name replaced by its value (lines 348..352
\* and 643..647), in the order of the dict.
RECURSIVE SubstituteVariables(_, _, _)
SubstituteVariables(text, variables, i) ==
    IF i > Len(variables) THEN text
    ELSE SubstituteVariables(
            Replace(text, variables[i].name,
                    IF IsStr(variables[i].val)
                    THEN <<"\"">> \o variables[i].val.s \o <<"\"">>
                    ELSE PyStr(variables[i].val)),
            variables, i + 1)

\* int(result) if result == int(result) else result (line 368), of what
\* eval gave
IntIfIntegral(e) ==
    IF ~e.ok THEN Raise
    ELSE IF IsStr(e.v)
    THEN IF PyInt(e.v).exc THEN Raise ELSE Ret(e.v)
    ELSE IF IsNum(e.v)
    THEN IF e.v.d = 1 THEN Ret(IntV(e.v.n)) ELSE Ret(e.v)
    ELSE Raise

\* try: ... except: return 0 (lines 346, 370..371)
ExceptZero(r) == IF r.exc THEN Ret(IntV(0)) ELSE r

RECURSIVE evaluate_expression(_, _, _), EvaluateArgs(_, _, _, _), ConcatParts(_, _, _, _, _)

\* The evaluated arguments (lines 328..331): [exc, v] with v the list.
EvaluateArgs(variables, args, i, rnd) ==
    IF i > Len(args) THEN [exc |-> FALSE, v |-> <<>>]
    ELSE IF args[i] = <<>> THEN EvaluateArgs(variables, args, i + 1, rnd)
    ELSE With(evaluate_expression(variables, args[i], rnd), LAMBDA a :
         With(EvaluateArgs(variables, args, i + 1, rnd), LAMBDA rest :
            IF a.exc \/ rest.exc THEN [exc |-> TRUE, v |-> <<>>]
            ELSE [exc |-> FALSE, v |-> <<a.v>> \o rest.v]))

\* The concatenation loop (lines 356..364).
ConcatParts(variables, parts, i, result, rnd) ==
    IF i > Len(parts) THEN Ret(StrV(result))
    ELSE With(Strip(parts[i]), LAMBDA part :
            IF StartsWith(part, <<"\"">>) /\ EndsWith(part, <<"\"">>)
            THEN ConcatParts(variables, parts, i + 1, result \o Inner(part), rnd)
            ELSE With(evaluate_expression(variables, part, rnd), LAMBDA r :
                    IF r.exc THEN Raise
                    ELSE ConcatParts(variables, parts, i + 1, result \o PyStr(r.v), rnd)))

evaluate_expression(variables, expr0, rnd) ==
    With(Strip(expr0), LAMBDA expr :
        \* Handle string literals
        IF StartsWith(expr, <<"\"">>) /\ EndsWith(expr, <<"\"">>) THEN Ret(StrV(Inner(expr)))
        \* Handle variables (expr[0] of an empty expr raises IndexError)
        ELSE IF expr = <<>> THEN Raise
        ELSE IF IsAlpha(expr)
                \/ (expr[1] \in Letters /\ \A i \in 2..Len(expr) : IsAlnumChar(expr[i]) \/ expr[i] = "$")
        THEN IF DictHas(variables, expr) THEN Ret(DictGet(variables, expr))
             ELSE Ret(IF ~EndsWith(expr, <<"$">>) THEN IntV(0) ELSE StrV(<<>>))
        ELSE With(FuncMatch(expr), LAMBDA func_match :
             With(Upper(func_match.name), LAMBDA func_name :
                \* Handle function calls
                IF func_match.ok /\ func_name \in FunctionNames
                THEN CallFunction(func_name,
                                  EvaluateArgs(variables, SplitArgs(func_match.args, 1, 0, <<>>, <<>>), 1, rnd),
                                  rnd)
                \* Handle basic arithmetic: whatever raises in the try is 0
                ELSE With(SubstituteVariables(expr, variables, 1), LAMBDA replaced :
                        ExceptZero(IF Contains(replaced, <<"+">>) /\ Contains(replaced, <<"\"">>)
                                   THEN ConcatParts(variables, Split(replaced, <<"+">>), 1, <<>>, rnd)
                                   ELSE IntIfIntegral(PyEval(replaced)))))))

(***************************************************************************)
(* The interpreter.  A handler is an operator from the interpreter's state *)
(* st (the fields of self, the files on disk, the text written to the      *)
(* screen) to the state it leaves.  st.exc is TRUE when the handler raised *)
(* (the state is then the one at the raise); st.run is TRUE when control   *)
(* entered the while loop of run_program.  io is what the outside supplies *)
(* to one statement: the line input() returns (or EOF) and the value of    *)
(* random.random().                                                        *)
(***************************************************************************)

current_line == 0

\* color_print(text) and print(text): text on the screen.  The text is what
\* is written with colours off (self.colors_enabled is False when the
\* output is no terminal); with colours on, escape codes surround it.
Printed(text) == [err |-> FALSE, s |-> text]

\* print_error(message)
ErrorMessage(message) == [err |-> TRUE, s |-> <<"?">> \o message \o <<"\n">>]

Emit(st, rec) == [st EXCEPT !.out = Append(@, rec)]

print_ready(st) == Emit(st, Printed(Chars("READY.") \o <<"\n">>))

print_error(st, message) == Emit(st, ErrorMessage(message))

Raised(st) == [st EXCEPT !.exc = TRUE]

\* sorted(self.lines.keys())
RECURSIVE SortedSeq(_)
SortedSeq(S) ==
    IF S = {} THEN <<>>
    ELSE With(CHOOSE x \in S : \A y \in S : x <= y, LAMBDA m : <<m>> \o SortedSeq(S \ {m}))

line_numbers(lines) == SortedSeq(DOMAIN lines)

\* parse_line: <<line_num, command>>, line_num None for a line without number
parse_line(line0) ==
    With(Strip(line0), LAMBDA line :
    With(SplitOnce(line, <<" ">>), LAMBDA parts :
        IF line = <<>> THEN <<None, <<>>>>
        ELSE IF IsDigit(parts[1])
        THEN <<ParseInt(parts[1]), IF Len(parts) > 1 THEN parts[2] ELSE <<>>>>
        ELSE <<None, line>>))

\* The parts of a PRINT statement (lines 520..543): the expressions and the
\* separators between them.
RECURSIVE PrintParts(_, _, _, _, _, _)
PrintParts(args, i, parts, current_part, in_string, paren_count) ==
    IF i > Len(args)
    THEN IF current_part # <<>> THEN Append(parts, Strip(current_part)) ELSE parts
    ELSE IF args[i] = "\""
    THEN PrintParts(args, i + 1, parts, Append(current_part, args[i]), ~in_string, paren_count)
    ELSE IF args[i] = "("
    THEN PrintParts(args, i + 1, parts, Append(current_part, args[i]), in_string, paren_count + 1)
    ELSE IF args[i] = ")"
    THEN PrintParts(args, i + 1, parts, Append(current_part, args[i]), in_string, paren_count - 1)
    ELSE IF args[i] \in {";", ","} /\ ~in_string /\ paren_count = 0
    THEN PrintParts(args, i + 1, Append(Append(parts, Strip(current_part)), <<args[i]>>),
                    <<>>, in_string, paren_count)
    ELSE PrintParts(args, i + 1, parts, Append(current_part, args[i]), in_string, paren_count)

\* The output of the parts (lines 546..556): [exc, v] with v the text.
RECURSIVE PrintOutput(_, _, _, _, _)
PrintOutput(variables, parts, i, output, rnd) ==
    IF i > Len(parts) THEN [exc |-> FALSE, v |-> output]
    ELSE IF parts[i] = <<";">> THEN PrintOutput(variables, parts, i + 1, output, rnd)
    ELSE IF parts[i] = <<",">>
    THEN PrintOutput(variables, parts, i + 1, output \o Repeat(<<" ">>, 16 - (Len(output) % 16)), rnd)
    ELSE With(evaluate_expression(variables, parts[i], rnd), LAMBDA result :
            IF result.exc THEN [exc |-> TRUE, v |-> output]
            ELSE PrintOutput(variables, parts, i + 1, output \o PyStr(result.v), rnd))

handle_print(st, args, io) ==
    IF args = <<>> THEN Emit(st, Printed(<<"\n">>))
    ELSE With(EndsWith(Strip(args), <<";">>), LAMBDA ends_with_semicolon :
         With(PrintParts(args, 1, <<>>, <<>>, FALSE, 0), LAMBDA parts :
         With(PrintOutput(st.variables, parts, 1, <<>>, io.rnd), LAMBDA output :
            IF output.exc THEN Raised(st)
            ELSE Emit(st, Printed(output.v \o (IF ends_with_semicolon THEN <<>> ELSE <<"\n">>))))))

\* The value INPUT stores for one variable (lines 587..593, 599..605).
InputValue(var_name, text) ==
    IF EndsWith(var_name, <<"$">>) THEN StrV(text)
    ELSE With(PyFloat(StrV(text)), LAMBDA f : IF f.exc THEN IntV(0) ELSE f.v)

\* The loop over the variables of an INPUT with several (lines 597..605).
RECURSIVE InputMany(_, _, _, _)
InputMany(variables, var_names, inputs, i) ==
    IF i > Len(var_names) THEN variables
    ELSE InputMany(
            IF i <= Len(inputs)
            THEN DictSet(variables, Strip(var_names[i]), InputValue(Strip(var_names[i]), Strip(inputs[i])))
            ELSE variables,
            var_names, inputs, i + 1)

handle_input(st, args0, io) ==
    With(IF StartsWith(args0, <<"\"">>) THEN FindFrom(args0, <<"\"">>, 1) ELSE -1, LAMBDA end_quote :
    With(IF end_quote # -1 THEN Slice(args0, 1, end_quote) ELSE <<>>, LAMBDA prompt :
    With(IF end_quote # -1 THEN Strip(SliceFrom(args0, end_quote + 1)) ELSE args0, LAMBDA args :
    With(Emit(st, Printed(IF prompt # <<>> THEN prompt ELSE Chars("? "))), LAMBDA asked :
    With(Split(args, <<",">>), LAMBDA var_names :
        IF io.eof THEN print_error(asked, Chars("REDO FROM START"))
        ELSE IF Len(var_names) = 1
        THEN [asked EXCEPT !.variables =
                DictSet(@, Strip(var_names[1]), InputValue(Strip(var_names[1]), io.inp))]
        ELSE [asked EXCEPT !.variables = InputMany(@, var_names, Split(io.inp, <<",">>), 1)])))))

handle_assignment(st, command0, io) ==
    With(IF StartsWith(command0, Chars("LET ")) THEN SliceFrom(command0, 4) ELSE command0, LAMBDA command :
        IF ~Contains(command, <<"=">>) THEN st
        ELSE With(SplitOnce(command, <<"=">>), LAMBDA parts :
             With(evaluate_expression(st.variables, parts[2], io.rnd), LAMBDA result :
                IF result.exc THEN Raised(st)
                ELSE [st EXCEPT !.variables = DictSet(@, Strip(parts[1]), result.v)])))

\* The values of the expressions, each evaluated in turn until one raises:
\* [exc, v] with v the list.
RECURSIVE EvaluateEach(_, _, _, _)
EvaluateEach(variables, exprs, i, rnd) ==
    IF i > Len(exprs) THEN [exc |-> FALSE, v |-> <<>>]
    ELSE With(evaluate_expression(variables, exprs[i], rnd), LAMBDA a :
            IF a.exc THEN [exc |-> TRUE, v |-> <<>>]
            ELSE With(EvaluateEach(variables, exprs, i + 1, rnd), LAMBDA rest :
                    IF rest.exc THEN rest ELSE [exc |-> FALSE, v |-> <<a.v>> \o rest.v]))

\* FOR: start, end and, when there is one, step are evaluated in this order
\* (lines 673..681).
handle_for(st, command, io) ==
    With(Strip(SliceFrom(command, 3)), LAMBDA for_part :
    With(SplitOnce(for_part, <<"=">>), LAMBDA eq :
        IF ~Contains(for_part, <<"=">>) THEN print_error(st, Chars("SYNTAX ERROR"))
        ELSE IF ~Contains(eq[2], Chars(" TO ")) THEN print_error(st, Chars("SYNTAX ERROR"))
        ELSE With(Strip(eq[1]), LAMBDA var_name :
             With(SplitOnce(eq[2], Chars(" TO ")), LAMBDA to :
             With(SplitOnce(to[2], Chars(" STEP ")), LAMBDA stp :
             With(EvaluateEach(st.variables,
                               <<to[1], stp[1]>> \o (IF Len(stp) > 1 THEN <<stp[2]>> ELSE <<>>),
                               1, io.rnd), LAMBDA values :
                IF values.exc THEN Raised(st)
                ELSE [st EXCEPT
                        !.for_loops = [n \in DOMAIN @ \cup {var_name} |->
                                         IF n = var_name
                                         THEN [start |-> values.v[1], end |-> values.v[2],
                                               step |-> IF Len(stp) > 1 THEN values.v[3] ELSE IntV(1),
                                               current |-> values.v[1],
                                               return_line |-> st.program_counter]
                                         ELSE @[n]],
                        !.variables = DictSet(@, var_name, values.v[1])]))))))

\* del self.for_loops[var_name]
DelLoop(for_loops, var_name) == [n \in DOMAIN for_loops \ {var_name} |-> for_loops[n]]

\* NEXT that returns without a message
handle_next_silent(st, var_name) == st

\* NEXT: the comparisons of lines 706..715 raise together or not at all (a
\* TypeError depends on the types of step, current and end only).
handle_next(st, var_name) ==
    IF var_name \notin DOMAIN st.for_loops THEN print_error(st, Chars("NEXT WITHOUT FOR ERROR"))
    ELSE With(PyBinary("+", st.for_loops[var_name].current, st.for_loops[var_name].step), LAMBDA sum :
         IF ~sum.ok THEN Raised(st)
         ELSE With([st.for_loops[var_name] EXCEPT !.current = sum.v], LAMBDA loop :
              With([st EXCEPT !.for_loops[var_name] = loop,
                              !.variables = DictSet(@, var_name, loop.current)], LAMBDA stepped :
              With(PyCompare(">", loop.step, IntV(0)), LAMBDA positive :
              With(PyCompare("<", loop.step, IntV(0)), LAMBDA negative :
              With(PyCompare("<=", loop.current, loop.end), LAMBDA within :
              With(PyCompare(">=", loop.current, loop.end), LAMBDA above :
                IF ~positive.ok \/ ~within.ok THEN Raised(stepped)
                ELSE With(\* Check if loop should continue
                          IF (positive.v.n = 1 /\ within.v.n = 1) \/ (positive.v.n = 0 /\ above.v.n = 1)
                          THEN [stepped EXCEPT !.program_counter = loop.return_line]
                          ELSE stepped, LAMBDA jumped :
                        \* Remove loop if finished
                        IF (positive.v.n = 1 /\ within.v.n = 0) \/ (negative.v.n = 1 /\ above.v.n = 0)
                        THEN [jumped EXCEPT !.for_loops = DelLoop(@, var_name)]
                        ELSE jumped))))))))

\* str.lower(), and s.strip('"')
LowerChar(c) ==
    IF \E i \in 1..26 : UpperLetters[i] = c
    THEN LowerLetters[CHOOSE i \in 1..26 : UpperLetters[i] = c]
    ELSE c

Lower(s) == [i \in 1..Len(s) |-> LowerChar(s[i])]

RECURSIVE StripQuotes(_)
StripQuotes(s) ==
    IF s # <<>> /\ Head(s) = "\"" THEN StripQuotes(Tail(s))
    ELSE IF s # <<>> /\ s[Len(s)] = "\"" THEN StripQuotes(Sub(s, 1, Len(s) - 1))
    ELSE s

\* The file name of LOAD and SAVE (lines 224..231, 261..268); <<>> when the
\* name is missing.
FileName(args) ==
    With(StripQuotes(Strip(args)), LAMBDA filename :
        IF filename = <<>> THEN <<>>
        ELSE IF ~EndsWith(Lower(filename), Chars(".bas")) THEN filename \o Chars(".bas")
        ELSE filename)

\* The text written without the line ends
RECURSIVE SavedTextNoLineEnd(_, _, _)
SavedTextNoLineEnd(lines, nums, i) ==
    IF i > Len(nums) THEN <<>>
    ELSE IntToStr(nums[i]) \o <<" ">> \o lines[nums[i]] \o SavedTextNoLineEnd(lines, nums, i + 1)

\* The text handle_save writes (lines 273..274).
RECURSIVE SavedText(_, _, _)
SavedText(lines, nums, i) ==
    IF i > Len(nums) THEN <<>>
    ELSE IntToStr(nums[i]) \o <<" ">> \o lines[nums[i]] \o <<"\n">> \o SavedText(lines, nums, i + 1)

handle_save(st, args) ==
    With(FileName(args), LAMBDA filename :
        IF filename = <<>> THEN print_error(st, Chars("MISSING FILENAME"))
        ELSE print_ready(Emit([st EXCEPT !.files = [f \in DOMAIN @ \cup {filename} |->
                                                      IF f = filename
                                                      THEN SavedText(st.lines, line_numbers(st.lines), 1)
                                                      ELSE @[f]]],
                              Printed(Chars("SAVING ") \o <<"\"">> \o filename \o <<"\"", "\n">>))))

\* The lines of a text file, as iterating over it yields them without their
\* line ends.
FileLines(text) ==
    With(Split(text, <<"\n">>), LAMBDA parts :
        IF parts[Len(parts)] = <<>> THEN Sub(parts, 1, Len(parts) - 1) ELSE parts)

\* The loop of handle_load (lines 239..244).
RECURSIVE LoadedLines(_, _, _)
LoadedLines(lines, file_lines, i) ==
    IF i > Len(file_lines) THEN lines
    ELSE With(Strip(file_lines[i]), LAMBDA line :
         With(parse_line(line), LAMBDA parsed :
            LoadedLines(
                IF line # <<>> /\ parsed[1] # None /\ parsed[2] # <<>>
                THEN [n \in DOMAIN lines \cup {parsed[1]} |-> IF n = parsed[1] THEN parsed[2] ELSE lines[n]]
                ELSE lines,
                file_lines, i + 1)))

handle_load(st, args) ==
    With(FileName(args), LAMBDA filename :
        IF filename = <<>> THEN print_error(st, Chars("MISSING FILENAME"))
        ELSE IF filename \notin DOMAIN st.files
        THEN print_error(st, Chars("FILE NOT FOUND: ") \o filename)
        ELSE print_ready(Emit([st EXCEPT !.lines = LoadedLines(<<>>, FileLines(st.files[filename]), 1)],
                              Printed(Chars("LOADING ") \o <<"\"">> \o filename \o <<"\"", "\n">>))))

\* The loop of list_program (lines 724..725).
RECURSIVE ListOutput(_, _, _)
ListOutput(st, nums, i) ==
    IF i > Len(nums) THEN st
    ELSE ListOutput(Emit(st, Printed(IntToStr(nums[i]) \o <<" ">> \o st.lines[nums[i]] \o <<"\n">>)),
                    nums, i + 1)

list_program(st) ==
    IF DOMAIN st.lines = {} THEN print_ready(st)
    ELSE ListOutput(st, line_numbers(st.lines), 1)

\* COLOR: int(evaluate_expression(..)) of the foreground and, after a comma,
\* of the background, then the assignments (lines 203..214); set_color
\* changes no field.
handle_color(st, args, io) ==
    With(Split(args, <<",">>), LAMBDA parts :
    With(EvaluateEach(st.variables,
                      IF Contains(args, <<",">>) THEN <<Strip(parts[1]), Strip(parts[2])>> ELSE <<args>>,
                      1, io.rnd), LAMBDA values :
        IF values.exc THEN print_error(st, Chars("SYNTAX ERROR"))
        ELSE With(PyInt(values.v[1]), LAMBDA fg_color :
             With(IF Contains(args, <<",">>) THEN PyInt(values.v[2]) ELSE fg_color, LAMBDA bg_color :
                IF fg_color.exc \/ bg_color.exc THEN print_error(st, Chars("SYNTAX ERROR"))
                ELSE IF Contains(args, <<",">>)
                THEN [st EXCEPT !.variables = DictSet(DictSet(@, Chars("CO"), fg_color.v),
                                                      Chars("BG"), bg_color.v)]
                ELSE [st EXCEPT !.variables = DictSet(@, Chars("CO"), fg_color.v)]))))

\* SCREEN (lines 500..505)
handle_screen(st, args, io) ==
    With(evaluate_expression(st.variables, args, io.rnd), LAMBDA value :
    With(IF value.exc THEN Raise ELSE PyInt(value.v), LAMBDA bg_color :
        IF bg_color.exc THEN print_error(st, Chars("SYNTAX ERROR"))
        ELSE [st EXCEPT !.variables = DictSet(@, Chars("BG"), bg_color.v)]))

\* min(self.lines.keys())
MinLine(lines) == CHOOSE n \in DOMAIN lines : \A m \in DOMAIN lines : n <= m

\* run_program up to its while loop (lines 729..734).
run_program(st) ==
    IF DOMAIN st.lines = {} THEN print_ready(st)
    ELSE [st EXCEPT !.running = TRUE, !.program_counter = MinLine(st.lines), !.run = TRUE]

\* bool(v)
Truthy(v) == IF IsStr(v) THEN v.s # <<>> ELSE v.n # 0

\* The branches with IF and FOR tested before the presence of =
DispatchKeywordFirst(command0) ==
    With(Upper(Strip(command0)), LAMBDA command :
        CASE command = <<>> -> "EMPTY"
          [] StartsWith(command, Chars("PRINT")) -> "PRINT"
          [] StartsWith(command, Chars("INPUT")) -> "INPUT"
          [] StartsWith(command, Chars("IF")) -> "IF"
          [] StartsWith(command, Chars("FOR")) -> "FOR"
          [] Contains(command, <<"=">>) -> "LET"
          [] StartsWith(command, Chars("NEXT")) -> "NEXT"
          [] StartsWith(command, Chars("GOTO")) -> "GOTO"
          [] StartsWith(command, Chars("GOSUB")) -> "GOSUB"
          [] command = Chars("RETURN") -> "RETURN"
          [] StartsWith(command, Chars("REM")) -> "REM"
          [] command = Chars("CLS") -> "CLS"
          [] StartsWith(command, Chars("LIST")) -> "LIST"
          [] command = Chars("RUN") -> "RUN"
          [] command = Chars("NEW") -> "NEW"
          [] command = Chars("END") -> "END"
          [] StartsWith(command, Chars("WAIT")) -> "WAIT"
          [] StartsWith(command, Chars("POKE")) -> "POKE"
          [] StartsWith(command, Chars("PEEK")) -> "PEEK"
          [] StartsWith(command, Chars("SYS")) -> "SYS"
          [] StartsWith(command, Chars("LOAD")) -> "LOAD"
          [] StartsWith(command, Chars("SAVE")) -> "SAVE"
          [] StartsWith(command, Chars("COLOR")) -> "COLOR"
          [] StartsWith(command, Chars("SCREEN")) -> "SCREEN"
          [] OTHER -> "ELSE")

\* The branch execute_command takes: the first test of its if/elif chain
\* that holds for the stripped, upper-cased command (lines 393..507).
Dispatch(command0) ==
    With(Upper(Strip(command0)), LAMBDA command :
        CASE command = <<>> -> "EMPTY"
          [] StartsWith(command, Chars("PRINT")) -> "PRINT"
          [] StartsWith(command, Chars("INPUT")) -> "INPUT"
          [] Contains(command, <<"=">>) -> "LET"
          [] StartsWith(command, Chars("IF")) -> "IF"
          [] StartsWith(command, Chars("FOR")) -> "FOR"
          [] StartsWith(command, Chars("NEXT")) -> "NEXT"
          [] StartsWith(command, Chars("GOTO")) -> "GOTO"
          [] StartsWith(command, Chars("GOSUB")) -> "GOSUB"
          [] command = Chars("RETURN") -> "RETURN"
          [] StartsWith(command, Chars("REM")) -> "REM"
          [] command = Chars("CLS") -> "CLS"
          [] StartsWith(command, Chars("LIST")) -> "LIST"
          [] command = Chars("RUN") -> "RUN"
          [] command = Chars("NEW") -> "NEW"
          [] command = Chars("END") -> "END"
          [] StartsWith(command, Chars("WAIT")) -> "WAIT"
          [] StartsWith(command, Chars("POKE")) -> "POKE"
          [] StartsWith(command, Chars("PEEK")) -> "PEEK"
          [] StartsWith(command, Chars("SYS")) -> "SYS"
          [] StartsWith(command, Chars("LOAD")) -> "LOAD"
          [] StartsWith(command, Chars("SAVE")) -> "SAVE"
          [] StartsWith(command, Chars("COLOR")) -> "COLOR"
          [] StartsWith(command, Chars("SCREEN")) -> "SCREEN"
          [] OTHER -> "ELSE")

\* int(self.evaluate_expression(text)) of GOTO and GOSUB (lines 422, 428)
Target(st, text, io) ==
    With(evaluate_expression(st.variables, text, io.rnd), LAMBDA value :
        IF value.exc THEN Raise ELSE PyInt(value.v))

\* GOTO (lines 421..424)
handle_goto(st, target) ==
    IF target.exc THEN Raised(st) ELSE [st EXCEPT !.program_counter = target.v.n]

\* GOSUB (lines 427..431)
handle_gosub(st, target) ==
    IF target.exc THEN Raised(st)
    ELSE [st EXCEPT !.gosub_stack = Append(@, st.program_counter),
                    !.program_counter = target.v.n]

\* RETURN that takes the oldest return address
handle_return_oldest(st) ==
    IF st.gosub_stack # <<>>
    THEN [st EXCEPT !.program_counter = st.gosub_stack[1],
                    !.gosub_stack = Tail(@)]
    ELSE st

\* RETURN (lines 434..437)
handle_return(st) ==
    IF st.gosub_stack # <<>>
    THEN [st EXCEPT !.program_counter = st.gosub_stack[Len(st.gosub_stack)],
                    !.gosub_stack = Sub(@, 1, Len(@) - 1)]
    ELSE st

\* NEW (lines 456..460)
handle_new(st) ==
    print_ready([st EXCEPT !.lines = <<>>, !.variables = <<>>, !.program_counter = 0])

\* END that leaves the running flag as it is
handle_end_noop(st) == st

\* END (lines 462..464)
handle_end(st) == [st EXCEPT !.running = FALSE]

RECURSIVE execute_command(_, _, _), handle_if_then(_, _, _)

handle_if_then(st, command, io) ==
    With(Strip(SliceFrom(command, 2)), LAMBDA if_part :
    With(Find(if_part, Chars("THEN")), LAMBDA then_index :
        IF then_index = -1 THEN print_error(st, Chars("SYNTAX ERROR"))
        ELSE With(Strip(Slice(if_part, 0, then_index)), LAMBDA condition :
             With(Strip(SliceFrom(if_part, then_index + 4)), LAMBDA action :
             With(PyEval(SubstituteVariables(
                            Replace(Replace(condition, <<"=">>, Chars("==")), Chars("<>"), Chars("!=")),
                            st.variables, 1)), LAMBDA value :
                IF ~value.ok THEN print_error(st, Chars("SYNTAX ERROR"))
                ELSE IF ~Truthy(value.v) THEN st
                \* what the action raises is caught here (line 651)
                ELSE With(execute_command(st, action, io), LAMBDA done :
                        IF done.exc THEN print_error([done EXCEPT !.exc = FALSE], Chars("SYNTAX ERROR"))
                        ELSE done))))))

execute_command(st, command0, io) ==
    With(Strip(command0), LAMBDA original_command :
    With(Dispatch(command0), LAMBDA branch :
        CASE branch = "EMPTY" -> st
          [] branch = "PRINT" -> handle_print(st, Strip(SliceFrom(original_command, 5)), io)
          [] branch = "INPUT" -> handle_input(st, Strip(SliceFrom(original_command, 5)), io)
          [] branch = "LET" -> handle_assignment(st, original_command, io)
          [] branch = "IF" -> handle_if_then(st, original_command, io)
          [] branch = "FOR" -> handle_for(st, original_command, io)
          [] branch = "NEXT" -> handle_next(st, Strip(SliceFrom(original_command, 4)))
          [] branch \in {"GOTO", "GOSUB"} ->
                With(Target(st, Strip(SliceFrom(original_command, IF branch = "GOTO" THEN 4 ELSE 5)), io),
                     LAMBDA target :
                        IF branch = "GOTO" THEN handle_goto(st, target) ELSE handle_gosub(st, target))
          [] branch = "RETURN" -> handle_return(st)
          [] branch = "REM" -> st
          \* clear_screen, colours off: print("\n" * 50) ends its text with a line end
          [] branch = "CLS" -> Emit(st, Printed(Repeat(<<"\n">>, 50) \o <<"\n">>))
          [] branch = "LIST" -> list_program(st)
          [] branch = "RUN" -> run_program(st)
          [] branch = "NEW" -> handle_new(st)
          [] branch = "END" -> handle_end(st)
          \* what WAIT evaluates changes no field, and what it raises is passed
          [] branch = "WAIT" -> st
          [] branch = "POKE" -> Emit(st, Printed(Chars("POKE: Memory location simulated") \o <<"\n">>))
          [] branch = "PEEK" -> Emit(st, Printed(Chars("PEEK: Memory location simulated") \o <<"\n">>))
          [] branch = "SYS" -> Emit(st, Printed(Chars("SYS: Machine language call simulated") \o <<"\n">>))
          [] branch = "LOAD" -> handle_load(st, Strip(SliceFrom(original_command, 4)))
          [] branch = "SAVE" -> handle_save(st, Strip(SliceFrom(original_command, 4)))
          [] branch = "COLOR" -> handle_color(st, Strip(SliceFrom(original_command, 5)), io)
          [] branch = "SCREEN" -> handle_screen(st, Strip(SliceFrom(original_command, 6)), io)
          [] OTHER -> print_error(st, Chars("SYNTAX ERROR IN ") \o IntToStr(current_line))))

\* add_line that splits the line as typed
add_line_unstripped(st, line, io) ==
    With(SplitOnce(line, <<" ">>), LAMBDA parts :
        IF IsDigit(parts[1])
        THEN IF Len(parts) > 1 /\ parts[2] # <<>>
             THEN [st EXCEPT !.lines = [n \in DOMAIN @ \cup {ParseInt(parts[1])} |->
                                           IF n = ParseInt(parts[1]) THEN parts[2] ELSE @[n]]]
             ELSE [st EXCEPT !.lines = [n \in DOMAIN @ \ {ParseInt(parts[1])} |-> @[n]]]
        ELSE execute_command(st, line, io))

\* add_line (lines 755..768)
add_line(st, line, io) ==
    With(parse_line(line), LAMBDA parsed :
        IF parsed[1] # None
        THEN IF parsed[2] # <<>>
             THEN [st EXCEPT !.lines = [n \in DOMAIN @ \cup {parsed[1]} |->
                                           IF n = parsed[1] THEN parsed[2] ELSE @[n]]]
             ELSE [st EXCEPT !.lines = [n \in DOMAIN @ \ {parsed[1]} |-> @[n]]]
        ELSE execute_command(st, parsed[2], io))

\* The fall-through line with the bound of the index test one short
FallThroughShort(lines, line_num) ==
    With(line_numbers(lines), LAMBDA nums :
    With(CHOOSE i \in 1..Len(nums) : nums[i] = line_num, LAMBDA current_index :
        IF current_index + 1 < Len(nums) THEN nums[current_index + 1] ELSE None))

\* The line after line_num in sorted order, None after the last (lines
\* 741..746).
FallThrough(lines, line_num) ==
    With(line_numbers(lines), LAMBDA nums :
    With(CHOOSE i \in 1..Len(nums) : nums[i] = line_num, LAMBDA current_index :
        IF current_index + 1 <= Len(nums) THEN nums[current_index + 1] ELSE None))

\* An iteration that leaves the program counter on the line it executes
run_iteration_stay(st, io) == execute_command(st, st.lines[st.program_counter], io)

\* One iteration of the while loop of run_program up to the end of
\* execute_command (lines 737..748).
run_iteration(st, io) ==
    execute_command([st EXCEPT !.program_counter = FallThrough(st.lines, st.program_counter)],
                    st.lines[st.program_counter], io)

(***************************************************************************)
(* The state machine.  variables .. gosub_stack are the fields of the      *)
(* C64Basic object, files the .bas files on disk, output the text written  *)
(* since the last line was read.  mode is where control is: "repl" in      *)
(* run() waiting for a line, "run" inside the while loop of run_program.   *)
(* History, for stating the properties: cmd is the line read last, ncmd    *)
(* counts the lines read, hist has one record per iteration of the while   *)
(* loop since the last line was read, and callers has, for each return     *)
(* address on gosub_stack, the line of the GOSUB that pushed it (None when *)
(* it was pushed in immediate mode or before the current run).             *)
(***************************************************************************)
VARIABLES variables, lines, program_counter, running, for_loops, gosub_stack,
          files, output, mode, cmd, ncmd, hist, callers

vars == <<variables, lines, program_counter, running, for_loops, gosub_stack,
          files, output, mode, cmd, ncmd, hist, callers>>

\* Bounds of the model: the lines read, the iterations of one run, the
\* depth of the GOSUB stack.
MaxCmds == 4

MaxSteps == 8

MaxStack == 3

\* The object as the handlers take it.
Self ==
    [variables |-> variables, lines |-> lines, program_counter |-> program_counter,
     running |-> running, for_loops |-> for_loops, gosub_stack |-> gosub_stack,
     files |-> files, out |-> <<>>, exc |-> FALSE, run |-> FALSE]

\* __init__ (lines 55..88)
Init ==
    /\ variables = << [name |-> Chars("TI"), val |-> IntV(0)],
                      [name |-> Chars("TI$"), val |-> StrV(Chars("000000"))],
                      [name |-> Chars("CO"), val |-> IntV(0)],
                      [name |-> Chars("BG"), val |-> IntV(6)] >>
    /\ lines = <<>>
    /\ program_counter = 0
    /\ running = FALSE
    /\ for_loops = <<>>
    /\ gosub_stack = <<>>
    /\ files = <<>>
    /\ output = <<>>
    /\ mode = "repl"
    /\ cmd = <<>>
    /\ ncmd = 0
    /\ hist = <<>>
    /\ callers = <<>>

\* What input() and random.random() may give a statement: a statement that
\* has no INPUT reads nothing, one that has no RND draws nothing.
InputTexts == {Chars("5"), Chars("X")}

IOs(text) ==
    LET reads == Contains(Upper(text), Chars("INPUT"))
        draws == Contains(Upper(text), Chars("RND"))
    IN  {[eof |-> e, inp |-> i, rnd |-> r] :
            e \in (IF reads THEN BOOLEAN ELSE {FALSE}),
            i \in (IF reads THEN InputTexts ELSE {<<>>}),
            r \in (IF draws THEN {FloatV(0, 1), FloatV(1, 2)} ELSE {FloatV(0, 1)})}

\* The history of the return addresses after a statement of line `at`.
CallersAfter(st, at) ==
    IF st.run THEN [i \in 1..Len(st.gosub_stack) |-> None]
    ELSE IF Len(st.gosub_stack) > Len(gosub_stack) THEN Append(callers, at)
    ELSE IF Len(st.gosub_stack) < Len(gosub_stack) THEN Sub(callers, 1, Len(callers) - 1)
    ELSE callers

Store(st) ==
    /\ variables' = st.variables
    /\ lines' = st.lines
    /\ program_counter' = st.program_counter
    /\ running' = st.running
    /\ for_loops' = st.for_loops
    /\ gosub_stack' = st.gosub_stack
    /\ files' = st.files

\* run(): one line read and handed to add_line (lines 776..789); an
\* exception that reaches run() is reported as a syntax error.
ReadLine(line, io) ==
    /\ mode = "repl"
    /\ ncmd < MaxCmds
    /\ \E st \in {add_line(Self, line, io)} :
           /\ Len(st.gosub_stack) <= MaxStack
           /\ Store(st)
           /\ output' = IF st.exc THEN Append(st.out, ErrorMessage(Chars("SYNTAX ERROR"))) ELSE st.out
           /\ mode' = IF st.run /\ ~st.exc THEN "run" ELSE "repl"
           /\ callers' = CallersAfter(st, None)
    /\ cmd' = line
    /\ ncmd' = ncmd + 1
    /\ hist' = <<>>

\* run_program: one iteration of the while loop (lines 736..751).  The loop
\* ends at the break of line 751, with READY printed (line 753), and when
\* the statement raises, with the syntax error of run() (line 789).  The
\* record added to hist: the line executed and its text, the program
\* counter, the text written and whether the statement raised, the GOSUB
\* stack before and after, and the line of the GOSUB whose return address
\* was on top of the stack.
RunStep ==
    /\ mode = "run"
    /\ running /\ program_counter \in DOMAIN lines
    /\ Len(hist) < MaxSteps
    /\ \E io \in IOs(lines[program_counter]) : \E st \in {run_iteration(Self, io)} :
           /\ Len(st.gosub_stack) <= MaxStack
           /\ Store(st)
           /\ output' = output \o st.out \o
                          (IF st.exc THEN <<ErrorMessage(Chars("SYNTAX ERROR"))>>
                           ELSE IF st.program_counter = None THEN <<Printed(Chars("READY.") \o <<"\n">>)>>
                           ELSE <<>>)
           /\ mode' = IF st.exc \/ st.program_counter = None THEN "repl" ELSE "run"
           /\ callers' = CallersAfter(st, program_counter)
           /\ hist' = Append(hist, [line |-> program_counter,
                                    text |-> lines[program_counter],
                                    pc |-> st.program_counter,
                                    out |-> st.out,
                                    exc |-> st.exc,
                                    stack |-> gosub_stack,
                                    after |-> st.gosub_stack,
                                    popped |-> IF callers = <<>> THEN None ELSE callers[Len(callers)]])
    /\ UNCHANGED <<cmd, ncmd>>

\* run_program: the while condition fails (line 736), READY is printed (line
\* 753) and control is back in run().
RunHalt ==
    /\ mode = "run"
    /\ ~(running /\ program_counter \in DOMAIN lines)
    /\ mode' = "repl"
    /\ output' = Append(output, Printed(Chars("READY.") \o <<"\n">>))
    /\ UNCHANGED <<variables, lines, program_counter, running, for_loops, gosub_stack,
                   files, cmd, ncmd, hist, callers>>

\* The lines typed at the prompt: a numbered line for every number and text.
Numbered(nums, texts) == {IntToStr(n) \o <<" ">> \o t : n \in nums, t \in texts}

(***************************************************************************)
(* Control flow: GOTO, GOSUB and RETURN, to lines that exist and to one    *)
(* that does not, among statements that fall through.                      *)
(***************************************************************************)
FlowTexts ==
    {Chars("GOSUB 20"), Chars("GOSUB 30"), Chars("GOSUB 99"), Chars("GOTO 30"), Chars("GOTO 99"),
     Chars("RETURN"), Chars("PRINT 1"), Chars("END")}

FlowLines == Numbered({10, 20, 30}, FlowTexts) \cup {Chars("RUN")}

Next ==
    \/ \E line \in FlowLines : \E io \in IOs(line) : ReadLine(line, io)
    \/ RunStep
    \/ RunHalt

Spec == Init /\ [][Next]_vars

(***************************************************************************)
(* Fall-through: statements that do not transfer control, and statements   *)
(* that report an error.                                                   *)
(***************************************************************************)
FallTexts ==
    {Chars("PRINT 1"), Chars("A=5"), Chars("REM X"), Chars("NEXT I"), Chars("FOO"),
     Chars("IF 1<2 PRINT 1"), Chars("GOTO 99"), Chars("END")}

FallLines == Numbered({10, 20, 30}, FallTexts) \cup {Chars("RUN")}

NextFall ==
    \/ \E line \in FallLines : \E io \in IOs(line) : ReadLine(line, io)
    \/ RunStep
    \/ RunHalt

SpecFall == Init /\ [][NextFall]_vars

(***************************************************************************)
(* FOR and NEXT, as lines of a program and in immediate mode.              *)
(***************************************************************************)
LoopTexts == {Chars("FOR I=1 TO 3"), Chars("PRINT I"), Chars("NEXT I"), Chars("I=2"), Chars("END")}

LoopLines == Numbered({10, 20, 30}, LoopTexts) \cup {Chars("RUN"), Chars("NEXT I"), Chars("I=2")}

NextLoop ==
    \/ \E line \in LoopLines : \E io \in IOs(line) : ReadLine(line, io)
    \/ RunStep
    \/ RunHalt

SpecLoop == Init /\ [][NextLoop]_vars

(***************************************************************************)
(* Variables: the statements that set them, in immediate mode.             *)
(***************************************************************************)
TypeLines ==
    {Chars("A = 5"), Chars("A = \"HI\""), Chars("A$ = \"HI\""), Chars("A$ = 5"),
     Chars("INPUT A"), Chars("INPUT A$"), Chars("FOR I=1 TO 3"), Chars("NEXT I")}

NextType == \E line \in TypeLines : \E io \in IOs(line) : ReadLine(line, io)

SpecType == Init /\ [][NextType]_vars

(***************************************************************************)
(* The program store: numbered lines as they may be typed, with blanks     *)
(* around the number and the text, among statements that set a variable    *)
(* and push a return address.                                              *)
(***************************************************************************)
StoreLines ==
    {Chars("10 A"), Chars("10 B C"), Chars("10 A "), Chars("10  A"), Chars(" 10 A"), Chars("010 B"),
     Chars("10"), Chars("10 "), Chars("20 A"), Chars("20"), Chars("A=5"), Chars("GOSUB 10")}

NextStore == \E line \in StoreLines : \E io \in IOs(line) : ReadLine(line, io)

SpecStore == Init /\ [][NextStore]_vars

(***************************************************************************)
(* Files: programs built line by line, saved and loaded.                   *)
(***************************************************************************)
FileNames == {Chars("P"), Chars("Q")}

SaveOf(f) == Chars("SAVE \"") \o f \o <<"\"">>

LoadOf(f) == Chars("LOAD \"") \o f \o <<"\"">>

FileLinesTyped ==
    {Chars("10 A"), Chars("10  B"), Chars("20 C D"), Chars("30 E"), Chars("10"), Chars("20"), Chars("NEW")}
        \cup {SaveOf(f) : f \in FileNames} \cup {LoadOf(f) : f \in FileNames}

NextFile == \E line \in FileLinesTyped : \E io \in IOs(line) : ReadLine(line, io)

SpecFile == Init /\ [][NextFile]_vars

(***************************************************************************)
(* The properties.  A statement of the run is a record of hist; the text   *)
(* of an error is written by print_error.                                  *)
(***************************************************************************)

\* The smallest line number of the program above L, None when L is the last.
SmallestAbove(L) ==
    IF \E n \in DOMAIN lines : n > L
    THEN CHOOSE n \in DOMAIN lines : n > L /\ \A m \in DOMAIN lines : m > L => n <= m
    ELSE None

\* The statement reported an error: a message of print_error, or an
\* exception that reached run().
Failed(h) == h.exc \/ \E k \in DOMAIN h.out : h.out[k].err

\* The texts a run wrote while executing line n, one per execution.
RECURSIVE TextOf(_, _)
TextOf(out, k) == IF k > Len(out) THEN <<>> ELSE out[k].s \o TextOf(out, k + 1)

WrittenAt(n) ==
    LET at == SelectSeq(hist, LAMBDA h : h.line = n)
    IN  [i \in 1..Len(at) |-> TextOf(at[i].out, 1)]

\* The run started by the last line read has ended.
RunEnded == cmd = Chars("RUN") /\ mode = "repl" /\ hist # <<>>

ForProgram ==
    [n \in {10, 20, 30} |->
        IF n = 10 THEN Chars("FOR I=1 TO 3") ELSE IF n = 20 THEN Chars("PRINT I") ELSE Chars("NEXT I")]

\* C1: when the run of the program 10 FOR I=1 TO 3 / 20 PRINT I / 30 NEXT I
\* has ended, line 20 was executed exactly three times and wrote 1, 2 and 3
\* in that order, and no loop is left in for_loops.
C1_ForNextRunsThreeTimes ==
    (lines = ForProgram /\ RunEnded) =>
        /\ WrittenAt(20) = <<Chars("1\n"), Chars("2\n"), Chars("3\n")>>
        /\ for_loops = <<>>

\* A statement of the run that popped the return address of a GOSUB of the
\* same run.
Returned(h) == Len(h.after) < Len(h.stack) /\ h.popped # None

\* C2: in a run, the RETURN that pops the address pushed by the GOSUB at
\* line L sets the program counter to the smallest line number above L, the
\* line executed next; when L is the last line the run ends.  Returns match
\* the GOSUBs last in, first out.
C2_ReturnResumesAfterGosub ==
    \A i \in DOMAIN hist :
        Returned(hist[i]) =>
            /\ hist[i].pc = SmallestAbove(hist[i].popped)
            /\ hist[i].pc = None => i = Len(hist) /\ mode = "repl"
            /\ (hist[i].pc # None /\ i < Len(hist)) => hist[i + 1].line = hist[i].pc

\* Two nested GOSUBs of different lines were returned from, the inner first.
C2_NestedReturnReached ==
    \E i, j \in DOMAIN hist :
        /\ i < j
        /\ Returned(hist[i]) /\ Len(hist[i].stack) = 2
        /\ Returned(hist[j]) /\ Len(hist[j].stack) = 1
        /\ hist[i].popped # hist[j].popped

\* A statement that does not transfer control.
Plain(h) == Dispatch(h.text) \in {"PRINT", "LET", "REM"}

\* C3: a run starts at the smallest line number; after a PRINT, an
\* assignment or a REM at line L the program counter is the smallest line
\* number above L, which is the line executed next, and the run ends when
\* there is none.
C3_RunFallsThrough ==
    /\ hist # <<>> => hist[1].line \in DOMAIN lines /\ \A n \in DOMAIN lines : hist[1].line <= n
    /\ \A i \in DOMAIN hist :
           Plain(hist[i]) =>
               /\ hist[i].pc = SmallestAbove(hist[i].line)
               /\ hist[i].pc = None => i = Len(hist) /\ mode = "repl"
               /\ i < Len(hist) => hist[i + 1].line = hist[i].pc

\* A run of three lines, a PRINT, an assignment and a REM, has ended.
C3_ThreePlainLinesRun ==
    /\ RunEnded
    /\ Len(hist) = 3
    /\ {Dispatch(hist[i].text) : i \in DOMAIN hist} = {"PRINT", "LET", "REM"}
    /\ hist[1].line < hist[2].line /\ hist[2].line < hist[3].line

\* C4: a statement of a run that reports an error is the last statement the
\* run executes.
C4_ErrorHaltsRun == \A i \in DOMAIN hist : Failed(hist[i]) => i = Len(hist)

\* C5: a RETURN executed in a run with the GOSUB stack empty reports an
\* error and is the last statement of the run, and the stack stays empty.
C5_ReturnWithoutGosub ==
    \A i \in DOMAIN hist :
        (Dispatch(hist[i].text) = "RETURN" /\ hist[i].stack = <<>>) =>
            /\ Failed(hist[i])
            /\ i = Len(hist)
            /\ hist[i].after = <<>>

\* C6: a GOTO or GOSUB of a run whose target is no line of the program
\* reports an error, and pushes nothing.
C6_UndefinedLine ==
    \A i \in DOMAIN hist :
        (Dispatch(hist[i].text) \in {"GOTO", "GOSUB"} /\ hist[i].pc \notin DOMAIN lines) =>
            /\ Failed(hist[i])
            /\ hist[i].after = hist[i].stack

\* The message of handle_next.
NextWithoutFor == <<ErrorMessage(Chars("NEXT WITHOUT FOR ERROR"))>>

\* The step executes NEXT v in immediate mode, no loop of v in for_loops.
NextTyped ==
    /\ mode = "repl" /\ ncmd' = ncmd + 1
    /\ parse_line(cmd')[1] = None /\ Dispatch(cmd') = "NEXT"
    /\ ~DictHas(for_loops, Strip(SliceFrom(Strip(cmd'), 4)))

\* The step executes NEXT v as a line of the run, no loop of v in for_loops.
NextRun ==
    /\ mode = "run" /\ Len(hist') = Len(hist) + 1
    /\ Dispatch(lines[program_counter]) = "NEXT"
    /\ ~DictHas(for_loops, Strip(SliceFrom(Strip(lines[program_counter]), 4)))

\* C7: NEXT v with no loop of v in for_loops writes ?NEXT WITHOUT FOR ERROR
\* and changes neither the variables nor for_loops; in immediate mode the
\* program counter stays, in a run it is the fall-through line.
C7_NextWithoutFor ==
    [][/\ NextTyped => /\ output' = NextWithoutFor
                       /\ variables' = variables /\ for_loops' = for_loops
                       /\ program_counter' = program_counter
       /\ NextRun => /\ hist'[Len(hist')].out = NextWithoutFor
                     /\ variables' = variables /\ for_loops' = for_loops
                     /\ program_counter' = SmallestAbove(program_counter)]_vars

\* A run executed NEXT I, with I set, after another line.
C7_NextOfSetVariable ==
    /\ DictHas(variables, Chars("I"))
    /\ \E i \in DOMAIN hist : i > 1 /\ Dispatch(hist[i].text) = "NEXT" /\ Failed(hist[i])

\* C8: every variable whose name ends in $ holds a string, and every other
\* variable holds a number.
C8_KindFollowsName ==
    \A i \in DOMAIN variables :
        EndsWith(variables[i].name, <<"$">>) <=> IsStr(variables[i].val)

\* What a line typed at the prompt leaves alone when it is a numbered line.
StoreFrame ==
    /\ variables' = variables /\ gosub_stack' = gosub_stack /\ for_loops' = for_loops
    /\ program_counter' = program_counter /\ running' = running /\ files' = files
    /\ output' = <<>> /\ mode' = "repl"

\* The program with line n holding text, and without line n.
Put(n, text) == [m \in DOMAIN lines \cup {n} |-> IF m = n THEN text ELSE lines[m]]

Removed(n) == [m \in DOMAIN lines \ {n} |-> lines[m]]

\* The step reads a line.
Typed == mode = "repl" /\ ncmd' = ncmd + 1

\* C9 as stated: a line `n text`, n digits and text what follows the first
\* blank, makes line n hold exactly text; n alone removes line n; nothing
\* else changes.
C9_PutExactText ==
    [][Typed =>
        LET parts == SplitOnce(cmd', <<" ">>)
        IN  IsDigit(parts[1]) =>
                /\ StoreFrame
                /\ lines' = IF Len(parts) > 1 /\ parts[2] # <<>>
                            THEN Put(ParseInt(parts[1]), parts[2])
                            ELSE Removed(ParseInt(parts[1]))]_vars

\* C9, amended: the line is taken without the blanks around it; `n text`,
\* n digits and text what follows the first blank, makes line n hold text;
\* n alone removes line n; nothing else changes.
C9_PutStrippedText ==
    [][Typed =>
        LET parts == SplitOnce(Strip(cmd'), <<" ">>)
        IN  IsDigit(parts[1]) =>
                /\ StoreFrame
                /\ lines' = IF Len(parts) > 1 /\ parts[2] # <<>>
                            THEN Put(ParseInt(parts[1]), parts[2])
                            ELSE Removed(ParseInt(parts[1]))]_vars

\* A line typed with blanks after its text is stored as line 10, with another
\* line and a return address in place.
C9_LineReplaced ==
    /\ cmd = Chars("10 A ")
    /\ 20 \in DOMAIN lines /\ lines[10] = Chars("A")
    /\ gosub_stack # <<>>

\* What LIST writes for a program.
Listing(program) == list_program([Self EXCEPT !.lines = program]).out

\* C10: SAVE leaves the program as it is, and LOAD of the file just saved
\* leaves a program that LIST writes as it wrote the one saved.
C10_SaveLoadRoundTrip ==
    [][/\ (Typed /\ \E f \in FileNames : cmd' = SaveOf(f)) => lines' = lines
       /\ (Typed /\ \E f \in FileNames : cmd = SaveOf(f) /\ cmd' = LoadOf(f)) =>
              Listing(lines') = Listing(lines)]_vars

\* A program of two lines, one with a blank before its text, was saved and
\* then loaded.
C10_TwoLinesLoaded ==
    /\ cmd = LoadOf(Chars("P"))
    /\ Chars("P.bas") \in DOMAIN files
    /\ DOMAIN lines = {10, 20} /\ lines[10] = Chars(" B")
    /\ Len(output) = 2 /\ ~output[1].err

(***************************************************************************)
(* NEW, after lines were stored, a variable set and a return address       *)
(* pushed.                                                                 *)
(***************************************************************************)
NewLines == {Chars("10 A"), Chars("20 B"), Chars("A=5"), Chars("GOSUB 10"), Chars("NEW")}

NextNew == \E line \in NewLines : \E io \in IOs(line) : ReadLine(line, io)

SpecNew == Init /\ [][NextNew]_vars

\* C11: after NEW the program has no lines, there are no variables, no
\* loops in for_loops and no return addresses on gosub_stack.
C11_NewResetsState ==
    (cmd = Chars("NEW") /\ ncmd > 0) =>
        /\ DOMAIN lines = {}
        /\ variables = <<>>
        /\ for_loops = <<>>
        /\ gosub_stack = <<>>

(***************************************************************************)
(* IF: a comparison of the variable A with a number, by each comparison    *)
(* operator, and PRINT 1 as the action.                                    *)
(***************************************************************************)
IfOps == {Chars("="), Chars("<>"), Chars("<"), Chars(">"), Chars("<="), Chars(">=")}

IfNumbers == {4, 5, 6}

IfLine(op, k) == Chars("IF A") \o op \o IntToStr(k) \o Chars(" THEN PRINT 1")

IfLines == {IfLine(op, k) : op \in IfOps, k \in IfNumbers} \cup {Chars("A=5"), Chars("A=4")}

NextIf == \E line \in IfLines : \E io \in IOs(line) : ReadLine(line, io)

SpecIf == Init /\ [][NextIf]_vars

\* The comparison a op k of two integers.
Compares(op, a, k) ==
    CASE op = Chars("=") -> a = k
      [] op = Chars("<>") -> a # k
      [] op = Chars("<") -> a < k
      [] op = Chars(">") -> a > k
      [] op = Chars("<=") -> a <= k
      [] op = Chars(">=") -> a >= k

\* C12: with A set, IF A op k THEN PRINT 1 writes 1 exactly when A op k
\* holds, for each of =, <>, <, >, <=, >=, and sets no variable.
C12_IfRunsActionWhenTrue ==
    [][\A op \in IfOps, k \in IfNumbers :
          (Typed /\ cmd' = IfLine(op, k) /\ DictHas(variables, Chars("A"))) =>
              /\ output' = IF Compares(op, DictGet(variables, Chars("A")).n, k)
                           THEN <<Printed(Chars("1\n"))>>
                           ELSE <<>>
              /\ variables' = variables]_vars

(***************************************************************************)
(* Expressions, in immediate mode: string concatenation, a number plus a   *)
(* string, division by zero, and variables that were never set.            *)
(***************************************************************************)
Words == {Chars("HI"), Chars(" THERE")}

Quoted(s) == <<"\"">> \o s \o <<"\"">>

ConcatLine(s, t) == Chars("A$ = ") \o Quoted(s) \o Chars(" + ") \o Quoted(t)

ConcatVars == Chars("E$ = C$ + \" \" + D$")

ExprLines ==
    {ConcatLine(s, t) : s, t \in Words}
        \cup {Chars("C$ = \"HELLO\""), Chars("D$ = \"WORLD\""), ConcatVars,
              Chars("PRINT 1+\"X\""), Chars("N = 1+\"X\""),
              Chars("PRINT 1/0"), Chars("Q = 5/0"),
              Chars("PRINT X"), Chars("PRINT X$"), Chars("PRINT X+1"), Chars("Y = X+1")}

NextExpr == \E line \in ExprLines : \E io \in IOs(line) : ReadLine(line, io)

SpecExpr == Init /\ [][NextExpr]_vars

\* The value of a variable that is set.
Holds(name, v) == DictHas(variables, Chars(name)) /\ DictGet(variables, Chars(name)) = v

\* The last line read wrote an error message.
WroteError == \E k \in DOMAIN output : output[k].err

\* The last line read wrote this text and nothing else.
WroteOnly(text) == output = <<Printed(text)>>

\* C13: A$ = "s" + "t" stores the string st in A$, and with C$ = "HELLO"
\* and D$ = "WORLD", E$ = C$ + " " + D$ stores HELLO WORLD in E$.
C13_PlusConcatenatesStrings ==
    /\ \A s, t \in Words : cmd = ConcatLine(s, t) => Holds("A$", StrV(s \o t))
    /\ (cmd = ConcatVars /\ Holds("C$", StrV(Chars("HELLO"))) /\ Holds("D$", StrV(Chars("WORLD"))))
           => Holds("E$", StrV(Chars("HELLO WORLD")))

\* C14: 1+"X" has no value: PRINT 1+"X" writes an error message and no
\* other text, and N = 1+"X" writes an error message and does not set N.
C14_NumberPlusStringFails ==
    /\ cmd = Chars("PRINT 1+\"X\"") => WroteError /\ Len(output) = 1
    /\ cmd = Chars("N = 1+\"X\"") => WroteError /\ ~DictHas(variables, Chars("N"))

\* C15: a division by zero is reported: PRINT 1/0 writes an error message
\* and no other text, and Q = 5/0 writes an error message and does not set
\* Q to 0.
C15_DivisionByZeroFails ==
    /\ cmd = Chars("PRINT 1/0") => WroteError /\ Len(output) = 1
    /\ cmd = Chars("Q = 5/0") => WroteError /\ ~DictHas(variables, Chars("Q"))

\* C16: with X and X$ never set, PRINT X writes 0, PRINT X$ writes the empty
\* string, PRINT X+1 writes 1 and Y = X+1 sets Y to 1, none with an error.
C16_UnsetVariableDefaults ==
    /\ cmd = Chars("PRINT X") => WroteOnly(Chars("0\n"))
    /\ cmd = Chars("PRINT X$") => WroteOnly(Chars("\n"))
    /\ cmd = Chars("PRINT X+1") => WroteOnly(Chars("1\n"))
    /\ cmd = Chars("Y = X+1") => Holds("Y", IntV(1)) /\ ~WroteError

(***************************************************************************)
(* Arithmetic: X = e for every expression e of three integer literals and  *)
(* two of the operators + - * /, written without parentheses, with the     *)
(* first two operands in parentheses, and with the last two.  One          *)
(* expression is evaluated in a session.                                   *)
(***************************************************************************)
ArithLiterals == {0, 2, 3, 12}

ArithOps == {"+", "-", "*", "/"}

ArithForms == {"a.b.c", "(a.b).c", "a.(b.c)"}

ArithTrees ==
    [a : ArithLiterals, b : ArithLiterals, c : ArithLiterals, op1 : ArithOps, op2 : ArithOps, form : ArithForms]

\* The text of an expression.
ArithText(e) ==
    CASE e.form = "a.b.c" -> IntToStr(e.a) \o <<e.op1>> \o IntToStr(e.b) \o <<e.op2>> \o IntToStr(e.c)
      [] e.form = "(a.b).c" ->
            <<"(">> \o IntToStr(e.a) \o <<e.op1>> \o IntToStr(e.b) \o <<")">> \o <<e.op2>> \o IntToStr(e.c)
      [] e.form = "a.(b.c)" ->
            IntToStr(e.a) \o <<e.op1>> \o <<"(">> \o IntToStr(e.b) \o <<e.op2>> \o IntToStr(e.c) \o <<")">>

ArithLine(e) == Chars("X = ") \o ArithText(e)

ArithLines == {ArithLine(e) : e \in ArithTrees}

NextArith == \E line \in ArithLines : \E io \in IOs(line) : ncmd = 0 /\ ReadLine(line, io)

SpecArith == Init /\ [][NextArith]_vars

\* Arithmetic on fractions n/d, d > 0; def is FALSE for a division by zero.
Frac(n) == [def |-> TRUE, n |-> n, d |-> 1]

NoFrac == [def |-> FALSE, n |-> 0, d |-> 1]

FracOp(op, x, y) ==
    IF ~x.def \/ ~y.def THEN NoFrac
    ELSE CASE op = "+" -> [def |-> TRUE, n |-> x.n * y.d + y.n * x.d, d |-> x.d * y.d]
           [] op = "-" -> [def |-> TRUE, n |-> x.n * y.d - y.n * x.d, d |-> x.d * y.d]
           [] op = "*" -> [def |-> TRUE, n |-> x.n * y.n, d |-> x.d * y.d]
           [] op = "/" -> IF y.n = 0 THEN NoFrac
                          ELSE IF y.n > 0 THEN [def |-> TRUE, n |-> x.n * y.d, d |-> x.d * y.n]
                          ELSE [def |-> TRUE, n |-> -(x.n * y.d), d |-> -(x.d * y.n)]

\* The value of an expression: * and / before + and -, operators of one
\* level from the left, parentheses first.
ArithValue(e) ==
    IF e.form = "a.(b.c)" \/ (e.form = "a.b.c" /\ e.op1 \in {"+", "-"} /\ e.op2 \in {"*", "/"})
    THEN FracOp(e.op1, Frac(e.a), FracOp(e.op2, Frac(e.b), Frac(e.c)))
    ELSE FracOp(e.op2, FracOp(e.op1, Frac(e.a), Frac(e.b)), Frac(e.c))

\* The number a fraction is: an int when it is whole, a float otherwise.
NumberOf(x) == IF x.n % x.d = 0 THEN IntV(x.n \div x.d) ELSE FloatV(x.n, x.d)

\* The lines whose expression has a value, each with the number it is.
ArithTable ==
    {[line |-> ArithLine(e), val |-> NumberOf(ArithValue(e))] : e \in {t \in ArithTrees : ArithValue(t).def}}

\* C17: X = e sets X to the value of e under the standard precedence and
\* left associativity, for every expression e of the table.
C17_ArithmeticPrecedence == \A r \in ArithTable : cmd = r.line => Holds("X", r.val)

\* 2+3*12 was evaluated to 38, (2+3)*12 to 60, and 12-3-2 to 7.
C17_PrecedenceCasesReached ==
    \/ cmd = Chars("X = 2+3*12") /\ Holds("X", IntV(38))
    \/ cmd = Chars("X = (2+3)*12") /\ Holds("X", IntV(60))
    \/ cmd = Chars("X = 12-3-2") /\ Holds("X", IntV(7))

(***************************************************************************)
(* FOR with a negative STEP, as lines of a program.                        *)
(***************************************************************************)
DownTexts == {Chars("FOR I=3 TO 1 STEP -1"), Chars("PRINT I"), Chars("NEXT I"), Chars("END")}

DownLines == Numbered({10, 20, 30}, DownTexts) \cup {Chars("RUN")}

NextDown ==
    \/ \E line \in DownLines : \E io \in IOs(line) : ReadLine(line, io)
    \/ RunStep
    \/ RunHalt

SpecDown == Init /\ [][NextDown]_vars

DownProgram ==
    [n \in {10, 20, 30} |->
        IF n = 10 THEN Chars("FOR I=3 TO 1 STEP -1") ELSE IF n = 20 THEN Chars("PRINT I") ELSE Chars("NEXT I")]

\* C18: when the run of the program 10 FOR I=3 TO 1 STEP -1 / 20 PRINT I /
\* 30 NEXT I has ended, line 20 was executed exactly three times and wrote
\* 3, 2 and 1 in that order, the loop is no longer in for_loops and no
\* statement of the run reported an error.
C18_ForStepDownRunsThreeTimes ==
    (lines = DownProgram /\ RunEnded) =>
        /\ WrittenAt(20) = <<Chars("3\n"), Chars("2\n"), Chars("1\n")>>
        /\ for_loops = <<>>
        /\ \A i \in DOMAIN hist : ~Failed(hist[i])

(***************************************************************************)
(* END, as a statement of a program and as the action of an IF whose       *)
(* condition holds or does not hold.                                       *)
(***************************************************************************)
EndTexts == {Chars("END"), Chars("IF 1<2 THEN END"), Chars("IF 2<1 THEN END"), Chars("PRINT 1")}

EndLines == Numbered({10, 20, 30}, EndTexts) \cup {Chars("RUN")}

NextEnd ==
    \/ \E line \in EndLines : \E io \in IOs(line) : ReadLine(line, io)
    \/ RunStep
    \/ RunHalt

SpecEnd == Init /\ [][NextEnd]_vars

\* The statement executed END: END itself, or an IF whose condition holds
\* and whose action is END.
EndExecuted(h) == h.text \in {Chars("END"), Chars("IF 1<2 THEN END")}

\* C19: the iteration of a run that executes END, directly or as the action
\* of an IF, is the last of the run, and the running flag is clear from then
\* on.
C19_EndHaltsRun ==
    \A i \in DOMAIN hist : EndExecuted(hist[i]) => (i = Len(hist) /\ running = FALSE)

\* A run ended at line 20, where an IF executed END, after an IF of line 10
\* whose condition did not hold, with line 30 never reached.
C19_EndBeforeLastLine ==
    /\ RunEnded
    /\ Len(hist) = 2
    /\ hist[1].text = Chars("IF 2<1 THEN END")
    /\ hist[2].text = Chars("IF 1<2 THEN END") /\ hist[2].line = 20
    /\ 30 \in DOMAIN lines
    /\ output = <<Printed(Chars("READY.") \o <<"\n">>)>>

(***************************************************************************)
(* Immediate mode: GOTO, GOSUB and PRINT typed without a line number,      *)
(* before the run of a program that has a RETURN.                          *)
(***************************************************************************)
ImmediateLines == {Chars("GOTO 20"), Chars("GOSUB 20"), Chars("PRINT 1")}

ImmLines == Numbered({10, 20}, {Chars("RETURN"), Chars("PRINT 1")}) \cup ImmediateLines \cup {Chars("RUN")}

NextImm ==
    \/ \E line \in ImmLines : \E io \in IOs(line) : ReadLine(line, io)
    \/ RunStep
    \/ RunHalt

SpecImm == Init /\ [][NextImm]_vars

\* C20: a statement typed without a line number, GOTO n and GOSUB n
\* included, leaves the program counter and the GOSUB stack as they were.
C20_ImmediateLeavesControlState ==
    [][(Typed /\ cmd' \in ImmediateLines) =>
          (program_counter' = program_counter /\ gosub_stack' = gosub_stack)]_vars

(***************************************************************************)
(* handle_for and handle_next called on the object, as execute_command     *)
(* calls them at lines 414 and 418, with the program counter set by the    *)
(* caller as run_program sets it before a statement.  cmd is the statement *)
(* of the call, ncmd counts the calls.                                     *)
(***************************************************************************)
ForCommands ==
    {Chars("FOR I=1 TO 3"), Chars("FOR I=1 TO 3 STEP 2"), Chars("FOR I=3 TO 1 STEP -1"),
     Chars("FOR I=1 TO 3 STEP 0"), Chars("FOR I=5 TO 3 STEP 0")}

CounterValues == {20, 40}

\* self.program_counter = n
SetCounter(n) ==
    /\ mode = "repl"
    /\ ncmd < MaxCmds + 2
    /\ program_counter # n
    /\ program_counter' = n
    /\ cmd' = <<>>
    /\ ncmd' = ncmd + 1
    /\ output' = <<>>
    /\ UNCHANGED <<variables, lines, running, for_loops, gosub_stack, files, mode, hist, callers>>

\* self.handle_for(command)
CallFor(command, io) ==
    /\ mode = "repl"
    /\ ncmd < MaxCmds + 2
    /\ \E st \in {handle_for(Self, command, io)} :
           /\ Store(st)
           /\ output' = st.out
    /\ cmd' = command
    /\ ncmd' = ncmd + 1
    /\ UNCHANGED <<mode, hist, callers>>

\* self.handle_next(var_name)
CallNext(var_name) ==
    /\ mode = "repl"
    /\ ncmd < MaxCmds + 2
    /\ \E st \in {handle_next(Self, var_name)} :
           /\ Store(st)
           /\ output' = st.out
    /\ cmd' = Chars("NEXT ") \o var_name
    /\ ncmd' = ncmd + 1
    /\ UNCHANGED <<mode, hist, callers>>

NextCalls ==
    \/ \E n \in CounterValues : SetCounter(n)
    \/ \E command \in ForCommands : \E io \in IOs(command) : CallFor(command, io)
    \/ CallNext(Chars("I"))

SpecCalls == Init /\ [][NextCalls]_vars

\* The frame of I, and whether NEXT I, after adding step, is to loop again.
FrameI == for_loops[Chars("I")]

LoopsAgain(current, end, step) == (step >= 0 /\ current <= end) \/ (step < 0 /\ current >= end)

\* NEXT I was called with a frame of I whose resume line is not where the
\* program counter stood.
NextCalledOnFrame ==
    /\ Typed
    /\ cmd' = Chars("NEXT I")
    /\ Chars("I") \in DOMAIN for_loops
    /\ FrameI.return_line # program_counter

SubstLines ==
    {Chars("COUNT=5"), Chars("A=2"), Chars("AB=7"), Chars("Y = COUNT+1"), Chars("Y = AB+1"),
     Chars("IF COUNT>1 THEN PRINT 1"), Chars("IF AB>1 THEN PRINT 1")}

NextSubst == \E line \in SubstLines : \E io \in IOs(line) : ReadLine(line, io)

SpecSubst == Init /\ [][NextSubst]_vars

\* The variable is set, and the number it holds.
IsSet(name) == DictHas(variables, Chars(name))

NumberIn(name) == DictGet(variables, Chars(name)).n

\* C22: with COUNT set, Y = COUNT+1 stores COUNT + 1 and IF COUNT>1 THEN
\* PRINT 1 writes 1 exactly when COUNT > 1; with AB set, Y = AB+1 stores
\* AB + 1 and IF AB>1 THEN PRINT 1 writes 1 exactly when AB > 1: whatever
\* the other variables (CO, A) are.
C22_WholeIdentifierLookup ==
    [][/\ (Typed /\ cmd' = Chars("Y = COUNT+1") /\ IsSet("COUNT")) =>
              DictGet(variables', Chars("Y")) = IntV(NumberIn("COUNT") + 1)
       /\ (Typed /\ cmd' = Chars("Y = AB+1") /\ IsSet("AB")) =>
              DictGet(variables', Chars("Y")) = IntV(NumberIn("AB") + 1)
       /\ (Typed /\ cmd' = Chars("IF COUNT>1 THEN PRINT 1") /\ IsSet("COUNT")) =>
              output' = IF NumberIn("COUNT") > 1 THEN <<Printed(Chars("1\n"))>> ELSE <<>>
       /\ (Typed /\ cmd' = Chars("IF AB>1 THEN PRINT 1") /\ IsSet("AB")) =>
              output' = IF NumberIn("AB") > 1 THEN <<Printed(Chars("1\n"))>> ELSE <<>>]_vars

(***************************************************************************)
(* Calls of built-in functions as operands: Y = f op y for the calls       *)
(* ABS(-5) and INT(7/2), and the call of RND inside the argument of INT.   *)
(***************************************************************************)
CallTexts == {Chars("ABS(-5)"), Chars("INT(7/2)")}

CallOps == {"+", "-", "*"}

CallOperands == {1, 2}

CallTargets == {"Y", "Z"}

CallLine(v, f, op, y) == Chars(v) \o Chars(" = ") \o f \o <<op>> \o IntToStr(y)

RndLine == Chars("Y = INT(RND(1) * 100)")

FuncLines ==
    {CallLine(v, f, op, y) : v \in CallTargets, f \in CallTexts, op \in CallOps, y \in CallOperands}
        \cup {Chars(v) \o Chars(" = ") \o f : v \in CallTargets, f \in CallTexts} \cup {RndLine}

NextFunc == \E line \in FuncLines : \E io \in IOs(line) : ReadLine(line, io)

SpecFunc == Init /\ [][NextFunc]_vars

\* abs(-5) and int(7/2), and a number combined with another by an operator.
CallValue(f) == IF f = Chars("ABS(-5)") THEN 5 ELSE 3

Combined(op, a, b) == CASE op = "+" -> a + b [] op = "-" -> a - b [] op = "*" -> a * b

\* C23: v = f op y stores in v the value of the call f combined with y by
\* op, and Y = INT(RND(1) * 100) stores the integer part of 100 times a
\* number that RND can draw (0 or 1/2 here).
C23_CallIsAnOperand ==
    /\ \A v \in CallTargets, f \in CallTexts, op \in CallOps, y \in CallOperands :
           cmd = CallLine(v, f, op, y) => Holds(v, IntV(Combined(op, CallValue(f), y)))
    /\ cmd = RndLine => (Holds("Y", IntV(0)) \/ Holds("Y", IntV(50)))

(***************************************************************************)
(* Runs of programs without GOTO, GOSUB, RETURN, NEXT, RUN, INPUT and      *)
(* LOAD: statements that fall through, END, NEW and a statement that       *)
(* raises (math.sqrt of a negative number).  The while loop of run_program *)
(* is sequential code: an iteration that can be taken is taken.            *)
(***************************************************************************)
TermTexts ==
    {Chars("PRINT 1"), Chars("A=5"), Chars("FOO"), Chars("END"), Chars("IF 1<2 THEN END"),
     Chars("NEW"), Chars("PRINT SQR(-1)")}

TermLines == Numbered({10, 20, 30}, TermTexts) \cup {Chars("RUN")}

NextTerm ==
    \/ \E line \in TermLines : \E io \in IOs(line) : ReadLine(line, io)
    \/ RunStep
    \/ RunHalt

SpecTerm == Init /\ [][NextTerm]_vars

\* Control is in the while loop of run_program and can take a step: the
\* guards of RunStep and RunHalt (no statement of TermTexts pushes on the
\* GOSUB stack).
Looping == mode = "run" /\ (Len(hist) < MaxSteps \/ ~(running /\ program_counter \in DOMAIN lines))

\* Weak fairness of the loop, WF_vars(RunStep \/ RunHalt), with the
\* enabling condition written out as Looping.
SpecTermFair == SpecTerm /\ ([]<>(~Looping) \/ []<><<RunStep \/ RunHalt>>_vars)

\* The line numbers of the iterations of the run increase: no line is
\* executed twice.
EachLineOnce == \A i, j \in DOMAIN hist : i < j => hist[i].line < hist[j].line

\* The statement was on the highest-numbered line of the program.
OnLastLine(h) == DOMAIN lines # {} /\ \A n \in DOMAIN lines : n <= h.line

\* The statement raised an exception (which run() reports), or was NEW.
EndsEarly(h) == h.exc \/ h.text = Chars("NEW")

\* C24 as stated: no line of the run is executed twice, and the run has
\* ended only at an END or after the highest-numbered line.
C24_EndsAtEndOrLastLine ==
    /\ EachLineOnce
    /\ RunEnded => (EndExecuted(hist[Len(hist)]) \/ OnLastLine(hist[Len(hist)]))

\* The iterations of the run so far: increasing line numbers; none but the
\* last executed END, raised or was NEW; and when the run has ended, the
\* last did one of these or was on the highest-numbered line.
RunStopsWhereItShould ==
    /\ EachLineOnce
    /\ \A i \in DOMAIN hist : (EndExecuted(hist[i]) \/ EndsEarly(hist[i])) => i = Len(hist)
    /\ RunEnded => \/ EndExecuted(hist[Len(hist)])
                   \/ EndsEarly(hist[Len(hist)])
                   \/ OnLastLine(hist[Len(hist)])

\* C24, amended: a run of such a program terminates, executes no line
\* twice, and ends at the first END executed, at the first statement that
\* raises an exception, at NEW, or after the highest-numbered line.
C24_RunTerminates == []RunStopsWhereItShould /\ (mode = "run" ~> mode = "repl")

\* A run ended at line 10, whose statement raised, before line 20.
C24_EndedByException ==
    /\ RunEnded
    /\ Len(hist) = 1 /\ hist[1].line = 10 /\ hist[1].exc
    /\ 20 \in DOMAIN lines

(***************************************************************************)
(* Statements that hold an = : assignments, FOR and IF, typed and as lines *)
(* of a program, with NEXT.                                                *)
(***************************************************************************)
EqualsTexts == {Chars("A=5"), Chars("LET B=2"), Chars("FOR I=1 TO 3"), Chars("IF A=5 THEN PRINT 1")}

EqualsLines ==
    EqualsTexts \cup Numbered({10, 20}, {Chars("FOR I=1 TO 3"), Chars("NEXT I"), Chars("IF A=5 THEN PRINT 1"), Chars("END")})
        \cup {Chars("NEXT I"), Chars("RUN")}

NextEquals ==
    \/ \E line \in EqualsLines : \E io \in IOs(line) : ReadLine(line, io)
    \/ RunStep
    \/ RunHalt

SpecEquals == Init /\ [][NextEquals]_vars

\* The name an assignment sets: the text before the first =, without the
\* LET and the blanks around it.
AssignedName(text) ==
    CASE text = Chars("A=5") -> Chars("A")
      [] text = Chars("LET B=2") -> Chars("B")
      [] text = Chars("FOR I=1 TO 3") -> Chars("FOR I")
      [] text = Chars("IF A=5 THEN PRINT 1") -> Chars("IF A")

\* The step executed a statement of EqualsTexts, typed or in a run.
Executed(text) ==
    \/ Typed /\ cmd' = text
    \/ hist' # hist /\ hist' # <<>> /\ hist'[Len(hist')].text = text

C26_RunStartsWithEmptyStack ==
    /\ (mode = "run" /\ hist = <<>>) => gosub_stack = <<>>
    /\ \A i \in DOMAIN hist :
           (Dispatch(hist[i].text) = "RETURN" /\ \A j \in 1..(i - 1) : Dispatch(hist[j].text) # "GOSUB") =>
               hist[i].after = hist[i].stack

====
